---- MODULE Spec2Model ----
(***************************************************************************)
(* Model of mcp-sdk-ts: the server built by createMCPServer                *)
(* (src/src/core/server.ts): its tool registry, its middleware list and    *)
(* the per-call invocation pipeline of the CallToolRequestSchema handler.  *)
(*                                                                         *)
(* A call is one run of the async request handler.  Zod schemas, hooks and *)
(* handlers are code supplied by the user of the SDK: what a schema parse,  *)
(* a hook or a handler does with the value it is given is an input of the  *)
(* model, chosen with \E at the point where the code calls it.             *)
(*                                                                         *)
(* The module also models the HTTP middleware factories of the same file   *)
(* (createRateLimitMiddleware with its RateLimiter, createAuthMiddleware),  *)
(* the tool catalog (the ListToolsRequestSchema handler, getTools,          *)
(* getManifest) and the schema translator zodToJsonSchema                   *)
(* (src/src/core/tool.ts).  Each has its own specification over the same    *)
(* variables: Spec (the call pipeline), SpecRL, SpecWindow, SpecAuth,       *)
(* SpecCatalog and SpecSchema.                                              *)
(***************************************************************************)
EXTENDS Naturals, Integers, Sequences, FiniteSets, TLC

\* ---------------------------------------------------------------- bounds
MaxTools == 2
MaxHooks == 2
MaxMiddleware == 1
NumCalls == 1
MaxLimit == 2      \* largest options.max a limiter is built with
MaxChecks == 4     \* requests one rate-limit middleware is followed through
MaxWindowLen == 3  \* longest time-window string handed to the factory
MaxProps == 2      \* most properties of an object schema
MaxListings == 2   \* catalog operations one server is followed through
NumArrivals == 3   \* requests that are inside one rate-limit middleware together
NumConcurrent == 2 \* tool calls that are in flight at the same time

\* ---------------------------------------------------------------- values
\* JavaScript values that flow through the pipeline as arguments, inputs and
\* outputs.  "zero" stands for the falsy values (0, "", false, null), "obj"
\* for an ordinary object and "big" for a truthy value that JSON.stringify
\* cannot serialize (a BigInt, a cyclic object).
Values == {"zero", "obj", "big"}

Truthy(v) == v # "zero"

\* Values a user function may throw.  An Error instance carries a message and
\* a stack; anything else is converted with String(error).
Thrown ==
  { [instanceOfError |-> TRUE,  message |-> "Division by zero",
     stack |-> "Error: Division by zero at handler", asString |-> "Error: Division by zero"],
    [instanceOfError |-> FALSE, message |-> "",
     stack |-> "", asString |-> "rejected"] }

SerializeFault ==
  [instanceOfError |-> TRUE, message |-> "Do not know how to serialize",
   stack |-> "TypeError at JSON.stringify", asString |-> "TypeError: Do not know how to serialize"]

ToolNames == {"greet", "calculate"}
RequestNames == ToolNames \cup {"missing"}
Calls == 1..NumCalls

\* The middleware factories of the SDK a server can be given, and the
\* wrapper useAuth builds around a validator.
MiddlewareKinds == {"rateLimit", "auth"}

VARIABLES
  tools,        \* const tools: MCPToolDefinition[]            (server.ts:30)
  middlewares,  \* const middlewares: Middleware[]             (server.ts:31)
  started,      \* start() has connected the transport         (server.ts:282)
  calls,        \* per call: the locals of one run of the call handler
  cancelled,    \* the calls whose request the peer has cancelled
  registration, \* history: the latest registerTool call, its name and what it threw
  limiter,      \* the RateLimiter a rate-limit middleware closes over (server.ts:395)
  requests,     \* RateLimiter.requests: Map<string, number[]>   (server.ts:361)
  now,          \* the clock Date.now() reads, in milliseconds
  rlLog,        \* history: every check and reset made, with its key, time and answer
  inflight,     \* per request inside the rate-limit middleware: the locals of check
  rlRes,        \* what the rate-limit middleware did with the latest request
  listings,     \* history: what the catalog operations returned, in call order
  auth,         \* the AuthOptions an auth middleware closes over (server.ts:437)
  authRes,      \* what the auth middleware did with the latest request
  node,         \* a schema handed to zodToJsonSchema
  doc           \* what zodToJsonSchema returned for it

serverVars == <<tools, middlewares, started, calls, cancelled>>
rlVars == <<limiter, requests, now, rlLog, rlRes, inflight>>
authVars == <<auth, authRes>>
schemaVars == <<node, doc>>
\* What the server's own operations never touch.
sideVars == <<rlVars, authVars, schemaVars, listings>>
vars ==
  <<tools, middlewares, started, calls, cancelled, registration, limiter, requests, now,
    rlLog, rlRes, inflight, listings, auth, authRes, node, doc>>

\* ------------------------------------------------------------ descriptors
HookList(n) == [i \in 1..n |-> i]

\* MCPToolDefinition: the name and the two hook lists (a list is the
\* sequence of its hooks, named by their position at definition time).
ToolDefs ==
  { [name |-> n, preHandler |-> HookList(p), postHandler |-> HookList(q)] :
      n \in ToolNames, p \in 0..MaxHooks, q \in 0..MaxHooks }

NoTool == [name |-> "", preHandler |-> <<>>, postHandler |-> <<>>]
NoValue == "undefined"
NoThrown == [instanceOfError |-> FALSE, message |-> "", stack |-> "", asString |-> ""]
NoSeen == [kind |-> "none", hook |-> 0, ctx |-> 0, input |-> NoValue, output |-> NoValue]
NoInvoked == [validate |-> 0, pre |-> 0, handler |-> 0, post |-> 0]
NoResponse == [isError |-> FALSE, text |-> <<>>]

\* Faulty variant of Find: falls back to the first registered tool when no
\* name matches.
FindOrFirst(ts, n) ==
  IF \E i \in 1..Len(ts) : ts[i].name = n
    THEN ts[CHOOSE i \in 1..Len(ts) :
              ts[i].name = n /\ \A j \in 1..(i - 1) : ts[j].name # n]
    ELSE IF Len(ts) > 0 THEN ts[1] ELSE NoTool

\* tools.find((t) => t.name === name): the first element with that name, or
\* NoTool for undefined.
RECURSIVE FindFrom(_, _, _)
FindFrom(ts, n, i) ==
  IF i > Len(ts) THEN NoTool
  ELSE IF ts[i].name = n THEN ts[i]
  ELSE FindFrom(ts, n, i + 1)

Find(ts, n) == FindFrom(ts, n, 1)

\* -------------------------------------------------------------- envelopes
\* error instanceof Error ? error.message : String(error)   (server.ts:258)
ErrMessage(e) == IF e.instanceOfError THEN e.message ELSE e.asString

\* The text of a response is the JSON document it carries, kept as the list
\* of its parts so that two texts are equal exactly when the documents are.
NotFoundResponse(n) ==
  [isError |-> TRUE, text |-> <<"error", "Tool not found", n>>]

InputInvalidResponse ==
  [isError |-> TRUE, text |-> <<"error", "Input validation failed", "details", "issues">>]

OutputInvalidResponse ==
  [isError |-> TRUE, text |-> <<"error", "Output validation failed", "details", "issues">>]

ExecFailedResponse(e) ==
  [isError |-> TRUE, text |-> <<"error", "Tool execution failed", "message", ErrMessage(e)>>]

\* JSON.stringify(output, null, 2): one text per serializable value.
Serializable(v) == v # "big"
Stringify(v) == <<"json", v>>
SuccessResponse(v) == [isError |-> FALSE, text |-> Stringify(v)]

\* ------------------------------------------------- what user code can do
Outcome(k, v, e) == [kind |-> k, value |-> v, error |-> e]

\* schema.parse(data): the parsed value, a ZodError, or another exception
\* (a refinement or transform of the schema that throws).
ParseOutcomes ==
  {Outcome("ok", v, NoThrown) : v \in Values}
    \cup {Outcome("zod", NoValue, NoThrown)}
    \cup {Outcome("throw", NoValue, e) : e \in Thrown}

\* await hook(...): resolves to undefined, resolves to a replacement object,
\* rejects, or never settles.
HookOutcomes ==
  {Outcome("void", NoValue, NoThrown)}
    \cup {Outcome("replace", v, NoThrown) : v \in Values}
    \cup {Outcome("throw", NoValue, e) : e \in Thrown}
    \cup {Outcome("hang", NoValue, NoThrown)}

\* await tool.handler({ input, ctx })
HandlerOutcomes ==
  {Outcome("return", v, NoThrown) : v \in Values}
    \cup {Outcome("throw", NoValue, e) : e \in Thrown}
    \cup {Outcome("hang", NoValue, NoThrown)}

\* ------------------------------------------------------- one call's locals
NewCall ==
  [pc |-> "idle", name |-> "", tool |-> NoTool, ctx |-> 0,
   input |-> NoValue, output |-> NoValue, hookIdx |-> 0,
   response |-> NoResponse, rejected |-> FALSE,
   \* history of the run, kept for the properties
   admitted |-> {},        \* middlewares that ran for this call and called next()
   seen |-> NoSeen,        \* arguments of the latest hook/handler invocation
   invoked |-> NoInvoked,  \* how often each kind of user code was invoked
   inputResult |-> "",     \* how the parse of the arguments ended
   outputResult |-> "",    \* how the parse of the handler's result ended
   fault |-> NoThrown,     \* what the code of this call threw
   faultAt |-> "",         \* the stage that threw it
   caught |-> NoThrown,    \* the error bound by catch (error)
   passed |-> {},          \* the stages left without a fault or an early return
   preRepl |-> NoValue,    \* the latest { input } a pre-hook returned
   postRepl |-> NoValue]   \* the latest { output } a post-hook returned

\* Faulty variant of Return: the envelope is built without isError.
ReturnNoFlag(s, resp) ==
  [s EXCEPT !.pc = "done", !.response = [resp EXCEPT !.isError = FALSE]]

\* return <response>
Return(s, resp) == [s EXCEPT !.pc = "done", !.response = resp]

\* Faulty variant of Catch: the catch block logs the error and rethrows it.
CatchRethrows(s, e) == [s EXCEPT !.pc = "done", !.caught = e, !.rejected = TRUE]

\* catch (error) { ... return { ..., isError: true } }
Catch(s, e) ==
  [s EXCEPT !.pc = "done", !.caught = e, !.response = ExecFailedResponse(e)]

\* throw e, in the code of a stage inside the try block
Throw(s, e, stage) == Catch([s EXCEPT !.fault = e, !.faultAt = stage], e)

Passed(s, stage) == [s EXCEPT !.passed = @ \cup {stage}]

\* Faulty variant of AfterPre: the loop over the pre-hooks is left after its
\* first iteration.
AfterPreSkips(t, i) == IF i < 1 /\ i < Len(t.preHandler) THEN "pre_hooks" ELSE "execute"

\* The stage that follows input validation / the pre-hook at position i.
AfterPre(t, i) == IF i < Len(t.preHandler) THEN "pre_hooks" ELSE "execute"

\* The stage that follows output validation / the post-hook at position i.
AfterPost(t, i) == IF i < Len(t.postHandler) THEN "post_hooks" ELSE "respond"

\* const { name, arguments: args } = request.params;
\* const tool = tools.find(...); if (!tool) return { ..., isError: true }
resolveStep(s, ts, n) ==
  LET t == Find(ts, n) IN
  IF t = NoTool
    THEN Return([s EXCEPT !.name = n], NotFoundResponse(n))
    ELSE Passed([s EXCEPT !.name = n, !.tool = t, !.pc = "validate_input"], "resolve")

\* Faulty variant of validateWithSchema: the catch block turns whatever the
\* parse raised into a failure result.
validateWithSchemaCatchesAll(r) ==
  IF r.kind = "ok"
    THEN [success |-> TRUE, data |-> r.value, threw |-> NoThrown]
    ELSE [success |-> FALSE, data |-> NoValue, threw |-> NoThrown]

\* validateWithSchema(schema, data), by how schema.parse(data) ends: a
\* success result with the parsed value, a failure result with the issues of
\* the ZodError, or, for anything else the parse raised, that error thrown on
\* to the caller.
validateWithSchema(r) ==
  CASE r.kind = "ok" -> [success |-> TRUE, data |-> r.value, threw |-> NoThrown]
    [] r.kind = "zod" -> [success |-> FALSE, data |-> NoValue, threw |-> NoThrown]
    [] OTHER -> [success |-> FALSE, data |-> NoValue, threw |-> r.error]

\* Faulty variant of validateInputStep: the failure branch does not return, so
\* the pipeline goes on with the undefined data of the failed result.
validateInputStepNoReturn(s, c, r) ==
  LET s1 == [s EXCEPT !.ctx = c, !.invoked.validate = @ + 1, !.inputResult = r.kind] IN
  CASE r.kind \in {"ok", "zod"} ->
         LET nxt == AfterPre(s.tool, 0)
             s2 == Passed([s1 EXCEPT !.input = r.value, !.pc = nxt, !.hookIdx = 1],
                          "validate_input")
         IN IF nxt = "execute" THEN Passed(s2, "pre_hooks") ELSE s2
    [] OTHER -> Throw(s1, r.error, "validate_input")

\* createContext; validateWithSchema(tool.inputSchema, args); let input = data
validateInputStep(s, c, r) ==
  LET s1 == [s EXCEPT !.ctx = c, !.invoked.validate = @ + 1, !.inputResult = r.kind]
      v == validateWithSchema(r)
  IN
  CASE v.threw # NoThrown -> Throw(s1, v.threw, "validate_input")
    [] v.success ->
         LET nxt == AfterPre(s.tool, 0)
             s2 == Passed([s1 EXCEPT !.input = v.data, !.pc = nxt, !.hookIdx = 1],
                          "validate_input")
         IN IF nxt = "execute" THEN Passed(s2, "pre_hooks") ELSE s2
    [] OTHER -> Return(s1, InputInvalidResponse)

\* Faulty variant of preHookStep: a rejected hook is logged and the loop goes
\* on with the next hook.
preHookStepSwallows(s, r) ==
  LET i == s.hookIdx
      s1 == [s EXCEPT !.invoked.pre = @ + 1,
                      !.seen = [kind |-> "pre", hook |-> s.tool.preHandler[i],
                                ctx |-> s.ctx, input |-> s.input, output |-> NoValue]]
      nxt == AfterPre(s.tool, i)
      s2 == [s1 EXCEPT !.pc = nxt, !.hookIdx = IF nxt = "pre_hooks" THEN i + 1 ELSE 1]
      s3 == IF nxt = "execute" THEN Passed(s2, "pre_hooks") ELSE s2
  IN
  CASE r.kind = "void" -> s3
    [] r.kind = "replace" ->
         [s3 EXCEPT !.preRepl = r.value,
                    !.input = IF Truthy(r.value) THEN r.value ELSE @]
    [] r.kind = "throw" -> [s3 EXCEPT !.fault = r.error, !.faultAt = "pre_hooks"]
    [] OTHER -> [s1 EXCEPT !.pc = "hung"]

\* Faulty variant of preHookStep: an input a pre-hook substituted is parsed
\* against the input schema again before it is used.
preHookStepRevalidates(s, r) ==
  LET i == s.hookIdx
      s1 == [s EXCEPT !.invoked.pre = @ + 1,
                      !.seen = [kind |-> "pre", hook |-> s.tool.preHandler[i],
                                ctx |-> s.ctx, input |-> s.input, output |-> NoValue]]
      nxt == AfterPre(s.tool, i)
      s2 == [s1 EXCEPT !.pc = nxt, !.hookIdx = IF nxt = "pre_hooks" THEN i + 1 ELSE 1]
      s3 == IF nxt = "execute" THEN Passed(s2, "pre_hooks") ELSE s2
  IN
  CASE r.kind = "void" -> s3
    [] r.kind = "replace" ->
         [s3 EXCEPT !.preRepl = r.value, !.invoked.validate = @ + 1,
                    !.input = IF Truthy(r.value) THEN r.value ELSE @]
    [] r.kind = "throw" -> Throw(s1, r.error, "pre_hooks")
    [] OTHER -> [s1 EXCEPT !.pc = "hung"]

\* const result = await hook(ctx, input);
\* if (result && result.input) input = result.input
preHookStep(s, r) ==
  LET i == s.hookIdx
      s1 == [s EXCEPT !.invoked.pre = @ + 1,
                      !.seen = [kind |-> "pre", hook |-> s.tool.preHandler[i],
                                ctx |-> s.ctx, input |-> s.input, output |-> NoValue]]
      nxt == AfterPre(s.tool, i)
      s2 == [s1 EXCEPT !.pc = nxt, !.hookIdx = IF nxt = "pre_hooks" THEN i + 1 ELSE 1]
      s3 == IF nxt = "execute" THEN Passed(s2, "pre_hooks") ELSE s2
  IN
  CASE r.kind = "void" -> s3
    [] r.kind = "replace" ->
         [s3 EXCEPT !.preRepl = r.value,
                    !.input = IF Truthy(r.value) THEN r.value ELSE @]
    [] r.kind = "throw" -> Throw(s1, r.error, "pre_hooks")
    [] OTHER -> [s1 EXCEPT !.pc = "hung"]

\* let output = await tool.handler({ input, ctx })
executeStep(s, r) ==
  LET s1 == [s EXCEPT !.invoked.handler = @ + 1,
                      !.seen = [kind |-> "handler", hook |-> 0, ctx |-> s.ctx,
                                input |-> s.input, output |-> NoValue]]
  IN
  CASE r.kind = "return" ->
         Passed([s1 EXCEPT !.output = r.value, !.pc = "validate_output"], "execute")
    [] r.kind = "throw" -> Throw(s1, r.error, "execute")
    [] OTHER -> [s1 EXCEPT !.pc = "hung"]

\* Faulty variant of validateOutputStep: the failure is logged but the branch
\* does not return, so the post-hooks run on the unvalidated output.
validateOutputStepNoReturn(s, r) ==
  LET s1 == [s EXCEPT !.invoked.validate = @ + 1, !.outputResult = r.kind] IN
  CASE r.kind = "ok" ->
         Passed([s1 EXCEPT !.output = r.value, !.pc = AfterPost(s.tool, 0)],
                "validate_output")
    [] r.kind = "zod" ->
         Passed([s1 EXCEPT !.pc = AfterPost(s.tool, 0)], "validate_output")
    [] OTHER -> Throw(s1, r.error, "validate_output")

\* validateWithSchema(tool.outputSchema, output); output = data
validateOutputStep(s, r) ==
  LET s1 == [s EXCEPT !.invoked.validate = @ + 1, !.outputResult = r.kind]
      v == validateWithSchema(r)
  IN
  CASE v.threw # NoThrown -> Throw(s1, v.threw, "validate_output")
    [] v.success ->
         Passed([s1 EXCEPT !.output = v.data, !.pc = AfterPost(s.tool, 0)],
                "validate_output")
    [] OTHER -> Return(s1, OutputInvalidResponse)

\* const result = await hook(ctx, input, output);
\* if (result && result.output) output = result.output
postHookStep(s, r) ==
  LET i == s.hookIdx
      s1 == [s EXCEPT !.invoked.post = @ + 1,
                      !.seen = [kind |-> "post", hook |-> s.tool.postHandler[i],
                                ctx |-> s.ctx, input |-> s.input, output |-> s.output]]
      nxt == AfterPost(s.tool, i)
      s2 == [s1 EXCEPT !.pc = nxt, !.hookIdx = IF nxt = "post_hooks" THEN i + 1 ELSE 1]
  IN
  CASE r.kind = "void" -> s2
    [] r.kind = "replace" ->
         [s2 EXCEPT !.postRepl = r.value,
                    !.output = IF Truthy(r.value) THEN r.value ELSE @]
    [] r.kind = "throw" -> Throw(s1, r.error, "post_hooks")
    [] OTHER -> [s1 EXCEPT !.pc = "hung"]

\* return { content: [{ type: 'text', text: JSON.stringify(output, null, 2) }] }
respondStep(s) ==
  LET s1 == Passed(s, "post_hooks") IN
  IF Serializable(s.output)
    THEN Return(Passed(s1, "respond"), SuccessResponse(s.output))
    ELSE Throw(s1, SerializeFault, "respond")

\* ------------------------------------------------------- the rate limiter
\* A string is the sequence of its characters; a time window option is a
\* number of milliseconds or a string.
Digits == <<"0", "1", "2", "3", "4", "5", "6", "7", "8", "9">>
IsDigit(c) == \E i \in 1..Len(Digits) : Digits[i] = c
DigitValue(c) == (CHOOSE i \in 1..Len(Digits) : Digits[i] = c) - 1
Units == {"s", "m", "h", "d"}

Num(n) == [type |-> "number", value |-> n, text |-> <<>>]
Str(t) == [type |-> "string", value |-> 0, text |-> t]

\* parseInt(digits, 10) on a non-empty run of decimal digits.
RECURSIVE parseInt(_)
parseInt(ds) ==
  IF ds = <<>> THEN 0
  ELSE parseInt(SubSeq(ds, 1, Len(ds) - 1)) * 10 + DigitValue(ds[Len(ds)])

multipliers ==
  [s |-> 1000, m |-> 60 * 1000, h |-> 60 * 60 * 1000, d |-> 24 * 60 * 60 * 1000]

\* timeWindow.match(/^(\d+)([smhd])$/): one or more digits, then one unit
\* character, and nothing else.
Matches(t) ==
  /\ Len(t) >= 2
  /\ \A i \in 1..(Len(t) - 1) : IsDigit(t[i])
  /\ t[Len(t)] \in Units

InvalidWindow == "Invalid time window format"

\* Faulty variant of parseTimeWindow: the pattern is not anchored at its
\* start, so any text may precede the last digit.
parseTimeWindowUnanchored(t) ==
  IF Len(t) >= 2 /\ IsDigit(t[Len(t) - 1]) /\ t[Len(t)] \in Units
    THEN [error |-> "", ms |-> DigitValue(t[Len(t) - 1]) * multipliers[t[Len(t)]]]
    ELSE [error |-> InvalidWindow, ms |-> 0]

\* parseTimeWindow(timeWindow): the milliseconds, or the error it throws.
parseTimeWindow(t) ==
  IF ~Matches(t)
    THEN [error |-> InvalidWindow, ms |-> 0]
    ELSE [error |-> "",
          ms |-> parseInt(SubSeq(t, 1, Len(t) - 1)) * multipliers[t[Len(t)]]]

\* RateLimiter: max and windowMs are the constructor's arguments; error is
\* what createRateLimitMiddleware threw instead of building one; options
\* remembers what the factory was called with.
NoOptions == [max |-> 0, timeWindow |-> Num(0)]
NoLimiter ==
  [built |-> FALSE, error |-> "", max |-> 0, windowMs |-> 0, options |-> NoOptions]

\* Faulty variant of check: the times already stored are kept, expired or
\* not, and the new one is added to them.
checkKeepsExpired(lim, reqs, key, t) ==
  LET stored == IF key \in DOMAIN reqs THEN reqs[key] ELSE <<>>
      validRequests == SelectSeq(stored, LAMBDA time : t - time < lim.windowMs)
  IN IF Len(validRequests) >= lim.max
       THEN [ok |-> FALSE, requests |-> reqs]
       ELSE [ok |-> TRUE,
             requests |-> [k \in DOMAIN reqs \cup {key} |->
                             IF k = key THEN Append(stored, t) ELSE reqs[k]]]

\* Faulty variant of check: a key at its limit is still let through.
checkOffByOne(lim, reqs, key, t) ==
  LET stored == IF key \in DOMAIN reqs THEN reqs[key] ELSE <<>>
      validRequests == SelectSeq(stored, LAMBDA time : t - time < lim.windowMs)
  IN IF Len(validRequests) > lim.max
       THEN [ok |-> FALSE, requests |-> reqs]
       ELSE [ok |-> TRUE,
             requests |-> [k \in DOMAIN reqs \cup {key} |->
                             IF k = key THEN Append(validRequests, t) ELSE reqs[k]]]

\* Faulty variant of check: an entry exactly windowMs old still counts.
checkKeepsBoundary(lim, reqs, key, t) ==
  LET stored == IF key \in DOMAIN reqs THEN reqs[key] ELSE <<>>
      validRequests == SelectSeq(stored, LAMBDA time : t - time <= lim.windowMs)
  IN IF Len(validRequests) >= lim.max
       THEN [ok |-> FALSE, requests |-> reqs]
       ELSE [ok |-> TRUE,
             requests |-> [k \in DOMAIN reqs \cup {key} |->
                             IF k = key THEN Append(validRequests, t) ELSE reqs[k]]]

\* RateLimiter.check(key) at Date.now() = t: the answer and the map after it.
check(lim, reqs, key, t) ==
  LET stored == IF key \in DOMAIN reqs THEN reqs[key] ELSE <<>>
      validRequests == SelectSeq(stored, LAMBDA time : t - time < lim.windowMs)
  IN IF Len(validRequests) >= lim.max
       THEN [ok |-> FALSE, requests |-> reqs]
       ELSE [ok |-> TRUE,
             requests |-> [k \in DOMAIN reqs \cup {key} |->
                             IF k = key THEN Append(validRequests, t) ELSE reqs[k]]]

\* An HTTP header is undefined, a string or an array of strings; req.ip is a
\* string or undefined.  NoValue and "" are the falsy strings.
NoHeader == [type |-> "undefined", value |-> NoValue, items |-> <<>>]
Header(v) == [type |-> "string", value |-> v, items |-> <<>>]
HeaderList(vs) == [type |-> "array", value |-> NoValue, items |-> vs]
StrTruthy(v) == v \notin {NoValue, ""}

\* Array.isArray(h) ? h[0] : h
FirstOf(h) ==
  IF h.type = "array"
    THEN (IF Len(h.items) > 0 THEN h.items[1] ELSE NoValue)
    ELSE h.value

\* Faulty variant of rateLimitKey: the forwarded header wins over req.ip.
rateLimitKeyForwardedFirst(req) ==
  IF StrTruthy(FirstOf(req.xff)) THEN FirstOf(req.xff)
  ELSE IF StrTruthy(req.ip) THEN req.ip
  ELSE "unknown"

\* req.ip || first x-forwarded-for || 'unknown'
rateLimitKey(req) ==
  IF StrTruthy(req.ip) THEN req.ip
  ELSE IF StrTruthy(FirstOf(req.xff)) THEN FirstOf(req.xff)
  ELSE "unknown"

NoRequest == [ip |-> NoValue, xff |-> NoHeader]

\* The requests that reach one rate-limit middleware together, and the
\* locals of check for one of them: the key, const now = Date.now() and the
\* filtered list validRequests.
Arrivals == 1..NumArrivals
NoArrival ==
  [pc |-> "waiting", req |-> NoRequest, key |-> "", at |-> 0, validRequests |-> <<>>]
NoRlRes == [req |-> NoRequest, key |-> "", status |-> 0, error |-> "", next |-> 0]

\* Requests a rate-limit middleware is sent.
RlRequests ==
  { [ip |-> "10.0.0.1", xff |-> Header("10.0.0.2")],
    [ip |-> NoValue, xff |-> Header("10.0.0.2")],
    [ip |-> NoValue, xff |-> HeaderList(<<"10.0.0.1", "10.0.0.2">>)],
    [ip |-> "", xff |-> HeaderList(<<>>)],
    [ip |-> NoValue, xff |-> NoHeader] }

\* Two callers that share the key 10.0.0.1 (one by req.ip, one by its
\* forwarded header) and one with the key 10.0.0.2.
ArrivalRequests ==
  { [ip |-> "10.0.0.1", xff |-> Header("10.0.0.2")],
    [ip |-> NoValue, xff |-> HeaderList(<<"10.0.0.1", "10.0.0.2">>)],
    [ip |-> NoValue, xff |-> Header("10.0.0.2")] }

\* Instants at which the clock is read.
Instants == {0, 200, 400, 1000, 1100}

\* RateLimitOptions a limiter is built from.
RLOptions ==
  { [max |-> m, timeWindow |-> w] :
      m \in 0..MaxLimit,
      w \in {Num(400), Str(<<"1", "s">>), Str(<<"1", "x">>)} }

\* ------------------------------------------------- the schema translator
\* Zod schema nodes, by class: kind is the class the instanceof tests see.
ZString(checks) == [kind |-> "ZodString", checks |-> checks]
ZNumber(checks) == [kind |-> "ZodNumber", checks |-> checks]
ZBoolean == [kind |-> "ZodBoolean"]
ZArray(type) == [kind |-> "ZodArray", type |-> type]
ZOptional(innerType) == [kind |-> "ZodOptional", innerType |-> innerType]
ZNullable(innerType) == [kind |-> "ZodNullable", innerType |-> innerType]
ZEnum(values) == [kind |-> "ZodEnum", values |-> values]
ZLiteral(typeof, value) == [kind |-> "ZodLiteral", typeof |-> typeof, value |-> value]
\* shape: the properties in declaration order, each a key and its schema.
ZObject(shape) == [kind |-> "ZodObject", shape |-> shape]
Prop(key, value) == [key |-> key, value |-> value]
\* A class the translator has no case for (ZodDefault, ZodUnion, ZodRecord).
ZOther(typeName) == [kind |-> typeName]

\* A JSON Schema document is a record of the fields it carries; an ordered
\* map (properties) is the sequence of its entries.  A translation that
\* threw is the record of what it threw.
Threw(d) == "threw" \in DOMAIN d

\* result.f = v
With(d, f, v) == [k \in DOMAIN d \cup {f} |-> IF k = f THEN v ELSE d[k]]

RECURSIVE stringChecks(_, _)
stringChecks(result, checks) ==
  IF checks = <<>> THEN result
  ELSE LET c == Head(checks)
           r == CASE c.kind = "email" -> With(result, "format", "email")
                  [] c.kind = "url" -> With(result, "format", "uri")
                  [] c.kind = "uuid" -> With(result, "format", "uuid")
                  [] c.kind = "min" -> With(result, "minLength", c.value)
                  [] c.kind = "max" -> With(result, "maxLength", c.value)
                  [] OTHER -> result
       IN stringChecks(r, Tail(checks))

RECURSIVE numberChecks(_, _)
numberChecks(result, checks) ==
  IF checks = <<>> THEN result
  ELSE LET c == Head(checks)
           r == CASE c.kind = "int" -> With(result, "type", "integer")
                  [] c.kind = "min" -> With(result, "minimum", c.value)
                  [] c.kind = "max" -> With(result, "maximum", c.value)
                  [] OTHER -> result
       IN numberChecks(r, Tail(checks))

\* Faulty variant of Fallback: an unsupported class makes the translation
\* throw.
FallbackThrows(schema) == [threw |-> "Unsupported schema type", kind |-> schema.kind]

\* The last return of zodToJsonSchema.
Fallback(schema) == [type |-> "object"]

\* !(value instanceof z.ZodOptional)
IsRequired(value) == value.kind # "ZodOptional"

RECURSIVE zodToJsonSchema(_)
zodToJsonSchema(schema) ==
  CASE schema.kind = "ZodObject" ->
         LET shape == schema.shape
             properties == [i \in 1..Len(shape) |->
                              Prop(shape[i].key, zodToJsonSchema(shape[i].value))]
             requiredProps == SelectSeq(shape, LAMBDA p : IsRequired(p.value))
             required == [i \in 1..Len(requiredProps) |-> requiredProps[i].key]
             failed == {i \in 1..Len(shape) : Threw(properties[i].value)}
         IN IF failed # {}
              THEN properties[CHOOSE i \in failed : \A j \in failed : i <= j].value
              ELSE IF Len(required) > 0
                THEN [type |-> "object", properties |-> properties, required |-> required]
                ELSE [type |-> "object", properties |-> properties]
    [] schema.kind = "ZodString" -> stringChecks([type |-> "string"], schema.checks)
    [] schema.kind = "ZodNumber" -> numberChecks([type |-> "number"], schema.checks)
    [] schema.kind = "ZodBoolean" -> [type |-> "boolean"]
    [] schema.kind = "ZodArray" ->
         LET items == zodToJsonSchema(schema.type)
         IN IF Threw(items) THEN items ELSE [type |-> "array", items |-> items]
    [] schema.kind = "ZodOptional" -> zodToJsonSchema(schema.innerType)
    [] schema.kind = "ZodNullable" ->
         LET inner == zodToJsonSchema(schema.innerType)
         IN IF Threw(inner) THEN inner ELSE With(inner, "nullable", TRUE)
    [] schema.kind = "ZodEnum" -> [type |-> "string", enum |-> schema.values]
    [] schema.kind = "ZodLiteral" ->
         [type |-> IF schema.typeof \in {"string", "number", "boolean"}
                     THEN schema.typeof ELSE "string",
          const |-> schema.value]
    [] OTHER -> Fallback(schema)

\* Schemas the translator is given.  Leaves, one and two wrappers around a
\* leaf, small objects, and objects of up to MaxProps properties over those.
Names == <<"a", "b", "c", "d">>
PropNames == {Names[i] : i \in 1..MaxProps}
Leaves ==
  { ZString(<<[kind |-> "min", value |-> 1], [kind |-> "email", value |-> 0]>>),
    ZOther("ZodDefault") }
Wrapped1 == UNION {{ZOptional(l), ZNullable(l), ZArray(l)} : l \in Leaves}
Wrapped2 == {ZNullable(ZOptional(l)) : l \in Leaves}
Nested == {ZObject(<<Prop("a", ZOther("ZodUnion"))>>)}
PropSchemas == Leaves \cup Wrapped1 \cup Wrapped2 \cup Nested
Shapes ==
  UNION { { [i \in 1..n |-> Prop(ks[i], vs[i])] :
              ks \in {f \in [1..n -> PropNames] : \A i, j \in 1..n : i # j => f[i] # f[j]},
              vs \in [1..n -> PropSchemas] } : n \in 0..MaxProps }
SchemaNodes ==
  PropSchemas \cup {ZObject(sh) : sh \in Shapes}
    \cup {ZArray(o) : o \in Nested}
    \cup {ZOptional(ZNullable(l)) : l \in Leaves}
    \cup { ZNumber(<<[kind |-> "int", value |-> 0], [kind |-> "max", value |-> 9]>>),
           ZBoolean, ZObject(<<Prop("a", ZOptional(ZBoolean))>>),
           ZEnum(<<"asc", "desc">>), ZLiteral("string", "v1"), ZLiteral("object", "null") }

NoNode == [kind |-> "none"]
NoDoc == [pending |-> TRUE]

\* --------------------------------------------------------- the tool catalog
\* MCPToolDefinition as the catalog reads it: name, description and the two
\* schemas.  greet is defined without a description.
CatalogSchemas ==
  { ZObject(<<Prop("a", ZNumber(<<>>)), Prop("b", ZOptional(ZNumber(<<>>)))>>),
    ZObject(<<>>),
    ZString(<<[kind |-> "max", value |-> 5]>>),
    ZArray(ZOther("ZodUnion")),
    ZNullable(ZObject(<<Prop("a", ZBoolean)>>)),
    ZOther("ZodRecord") }
CatalogDefs ==
  { [name |-> n,
     description |-> IF n = "greet" THEN NoValue ELSE "Adds two numbers",
     inputSchema |-> i, outputSchema |-> ZString(<<>>),
     preHandler |-> <<>>, postHandler |-> <<>>] :
      n \in ToolNames, i \in CatalogSchemas }

\* Faulty variant of catalogEntry: the translation is passed on as it is.
catalogEntryAsTranslated(tool) ==
  LET schema == zodToJsonSchema(tool.inputSchema)
  IN [name |-> tool.name,
      description |-> IF StrTruthy(tool.description)
                        THEN <<tool.description>> ELSE <<"Execute", tool.name>>,
      inputSchema |-> schema]

\* One element of mcpTools: the translation with type forced to 'object' and
\* properties defaulted to {}.
catalogEntry(tool) ==
  LET schema == zodToJsonSchema(tool.inputSchema)
  IN IF Threw(schema) THEN schema
     ELSE [name |-> tool.name,
           description |-> IF StrTruthy(tool.description)
                             THEN <<tool.description>> ELSE <<"Execute", tool.name>>,
           inputSchema |-> With(With(schema, "type", "object"), "properties",
                                IF "properties" \in DOMAIN schema
                                  THEN schema.properties ELSE <<>>)]

\* xs.map(f), where a call of f that throws ends the whole map.
MapOrThrow(xs) ==
  LET failed == {i \in 1..Len(xs) : Threw(xs[i])}
  IN IF failed = {} THEN [threw |-> "", items |-> xs]
     ELSE [threw |-> xs[CHOOSE i \in failed : \A j \in failed : i <= j].threw,
           items |-> <<>>]

\* Faulty variant of mcpTools: the newest registration is listed first.
mcpToolsNewestFirst(ts) ==
  MapOrThrow([i \in 1..Len(ts) |-> catalogEntry(ts[Len(ts) + 1 - i])])

\* tools.map(...) of the ListToolsRequestSchema handler.
mcpTools(ts) == MapOrThrow([i \in 1..Len(ts) |-> catalogEntry(ts[i])])

\* One element of the manifest's tools.
manifestEntry(tool) ==
  LET input == zodToJsonSchema(tool.inputSchema)
      output == zodToJsonSchema(tool.outputSchema)
  IN IF Threw(input) THEN input
     ELSE IF Threw(output) THEN output
     ELSE [name |-> tool.name, description |-> tool.description,
           input |-> input, output |-> output]

\* generateManifest(config, tools).tools
generateManifest(ts) == MapOrThrow([i \in 1..Len(ts) |-> manifestEntry(ts[i])])

\* ---------------------------------------------------- the auth middleware
\* Header values the auth middleware reads are sequences of characters; the
\* middleware only tests !token, so undefined and '' are both <<>> here.
Text(t) == [type |-> "string", value |-> t, items |-> <<>>]
TextList(ts) == [type |-> "array", value |-> <<>>, items |-> ts]
NoText == [type |-> "undefined", value |-> <<>>, items |-> <<>>]

\* Array.isArray(h) ? h[0] : h
FirstText(h) ==
  IF h.type = "array"
    THEN (IF Len(h.items) > 0 THEN h.items[1] ELSE <<>>)
    ELSE h.value

BearerPrefix == <<"B", "e", "a", "r", "e", "r", " ">>
StartsWith(t, p) == Len(t) >= Len(p) /\ SubSeq(t, 1, Len(p)) = p
Substring(t, n) == SubSeq(t, n + 1, Len(t))

\* headerName.toLowerCase(), on the header names used here.
ToLowerCase(n) == IF n = "X-Token" THEN "x-token" ELSE n

HeaderNames == {"x-api-key", "x-token", "authorization"}

\* AuthOptions: validate is "present" or "absent"; what a present validator
\* answers is chosen when it is called.
AuthTypes == {"apiKey", "bearer", "custom"}
AuthOptionsSet ==
  { [type |-> t, headerName |-> h, validate |-> v] :
      t \in AuthTypes, h \in {NoValue, "X-Token"}, v \in {"present", "absent"} }

NoAuth == [built |-> FALSE, type |-> "", headerName |-> NoValue, validate |-> "absent"]

\* Faulty variant of extractToken: a type other than 'apiKey' is read as a
\* bearer scheme.
extractTokenCustomAsBearer(o, headers) ==
  IF o.type = "apiKey"
    THEN FirstText(headers[ToLowerCase(IF StrTruthy(o.headerName)
                                         THEN o.headerName ELSE "x-api-key")])
    ELSE LET authHeaderStr == FirstText(headers["authorization"])
         IN IF StartsWith(authHeaderStr, BearerPrefix)
              THEN Substring(authHeaderStr, 7) ELSE <<>>

\* The token the middleware extracts (server.ts:439-451); <<>> when none.
extractToken(o, headers) ==
  IF o.type = "apiKey"
    THEN FirstText(headers[ToLowerCase(IF StrTruthy(o.headerName)
                                         THEN o.headerName ELSE "x-api-key")])
    ELSE IF o.type = "bearer"
      THEN LET authHeaderStr == FirstText(headers["authorization"])
           IN IF StartsWith(authHeaderStr, BearerPrefix)
                THEN Substring(authHeaderStr, 7) ELSE <<>>
    ELSE <<>>

\* What a validator does with a token: answers true or false, or throws.
ValidateOutcomes == {"true", "false", "throw"}

AuthHeaderValues ==
  { NoText,
    Text(<<"k", "1">>),
    Text(BearerPrefix \o <<"t", "1">>),
    Text(BearerPrefix),
    Text(<<"b", "e", "a", "r", "e", "r", " ", "t", "1">>),
    TextList(<<BearerPrefix \o <<"t", "2">>, <<"k", "2">>>>),
    TextList(<<>>) }
AuthRequests == [HeaderNames -> AuthHeaderValues]

NoAuthRes ==
  [handled |-> FALSE, headers |-> [h \in HeaderNames |-> NoText], token |-> <<>>,
   validated |-> 0, outcome |-> "", status |-> 0, error |-> "", message |-> <<>>,
   next |-> 0, rejected |-> FALSE]

\* The middleware on one request; r is what validate does if it is called.
authStep(o, headers, r) ==
  LET token == extractToken(o, headers)
      res == [NoAuthRes EXCEPT !.handled = TRUE, !.headers = headers, !.token = token]
  IN IF token = <<>>
       THEN [res EXCEPT !.status = 401, !.error = "Authentication required",
                        !.message = <<"Missing", o.type, "token">>]
     ELSE IF o.validate = "present"
       THEN LET called == [res EXCEPT !.validated = 1, !.outcome = r]
            IN CASE r = "throw" -> [called EXCEPT !.rejected = TRUE]
                 [] r = "false" -> [called EXCEPT !.status = 401,
                                                  !.error = "Authentication failed",
                                                  !.message = <<"Invalid token">>]
                 [] OTHER -> [called EXCEPT !.next = 1]
     ELSE [res EXCEPT !.next = 1]

\* ------------------------------------------------------------------ Init
\* createMCPServer(config): an empty registry; the middleware list is
\* config.middleware, or empty when the config has none.
ConfigMiddleware ==
  {<<>>} \cup {<<m>> : m \in {k \in MiddlewareKinds : MaxMiddleware > 0}}

\* No rate-limit middleware has been built; the clock starts at 0.
InitRL ==
  /\ limiter = NoLimiter
  /\ requests = <<>>
  /\ now = 0
  /\ rlLog = <<>>
  /\ rlRes = NoRlRes
  /\ inflight = [a \in Arrivals |-> NoArrival]

\* Nothing listed, no auth middleware built, nothing translated.
InitSide ==
  /\ InitRL
  /\ listings = <<>>
  /\ auth = NoAuth
  /\ authRes = NoAuthRes
  /\ doc = NoDoc

NoRegistration == [name |-> "", threw |-> <<>>]

InitServer ==
  /\ tools = <<>>
  /\ middlewares \in ConfigMiddleware
  /\ started = FALSE
  /\ calls = [c \in Calls |-> NewCall]
  /\ cancelled = {}
  /\ registration = NoRegistration

Init == InitServer /\ InitSide /\ node = NoNode

\* ------------------------------------------------------- server operations
\* new Error(`Tool with name "${tool.name}" already registered`)
DuplicateTool(n) == <<"Tool with name", n, "already registered">>

\* Faulty variant of registerTool: a taken name replaces the registered
\* descriptor.
registerToolOverwrites(t) ==
  /\ Len(tools) < MaxTools
  /\ tools' = IF Find(tools, t.name) # NoTool
               THEN [i \in 1..Len(tools) |-> IF tools[i].name = t.name THEN t ELSE tools[i]]
               ELSE Append(tools, t)
  /\ registration' = [name |-> t.name, threw |-> <<>>]
  /\ UNCHANGED <<middlewares, started, calls, cancelled, sideVars>>

\* registerTool(tool): throws when the name is taken, else pushes.
registerTool(t) ==
  /\ Len(tools) < MaxTools
  /\ IF Find(tools, t.name) # NoTool
       THEN tools' = tools
            /\ registration' = [name |-> t.name, threw |-> DuplicateTool(t.name)]
       ELSE tools' = Append(tools, t)
            /\ registration' = [name |-> t.name, threw |-> <<>>]
  /\ UNCHANGED <<middlewares, started, calls, cancelled, sideVars>>

\* use(middleware): pushes.
use(m) ==
  /\ Len(middlewares) < MaxMiddleware
  /\ middlewares' = Append(middlewares, m)
  /\ UNCHANGED <<tools, started, calls, cancelled, registration, sideVars>>

\* useAuth(validator): pushes a wrapper around the validator.
useAuth ==
  /\ Len(middlewares) < MaxMiddleware
  /\ middlewares' = Append(middlewares, "useAuth")
  /\ UNCHANGED <<tools, started, calls, cancelled, registration, sideVars>>

\* start(): connects the stdio transport; requests are served from then on.
start ==
  /\ ~started
  /\ started' = TRUE
  /\ UNCHANGED <<tools, middlewares, calls, cancelled, registration, sideVars>>

\* ------------------------------------------------ the call handler, by stage
\* Faulty variant of At: the hooks and the handler are waited for while
\* holding the thread, so no stage of any call runs while a call hangs.
AtBlocking(c, stage) ==
  /\ calls[c].pc = stage
  /\ stage = "idle" \/ \A d \in DOMAIN calls \ {c} : calls[d].pc # "hung"

\* The run of the handler for call c is suspended before the given stage; it
\* goes on whenever the event loop resumes it, whatever the other runs do.
At(c, stage) == calls[c].pc = stage

\* Faulty variant of Step: input and output are declared outside the
\* handler, so every run of it in flight reads and writes the same two
\* variables.
StepSharedLocals(c, s) ==
  /\ calls' = [d \in DOMAIN calls |->
                 IF d = c THEN s
                 ELSE IF calls[d].pc \in {"idle", "done"} THEN calls[d]
                 ELSE [calls[d] EXCEPT !.input = s.input, !.output = s.output]]
  /\ UNCHANGED <<tools, middlewares, started, cancelled, registration, sideVars>>

\* One step of the run of the handler for call c: ctx, input and output are
\* locals of that run.
Step(c, s) ==
  /\ calls' = [calls EXCEPT ![c] = s]
  /\ UNCHANGED <<tools, middlewares, started, cancelled, registration, sideVars>>

\* A tools/call request arrives: RESOLVE.
Resolve(c) ==
  /\ started
  /\ At(c, "idle")
  /\ \E n \in RequestNames : Step(c, resolveStep(calls[c], tools, n))

ValidateInput(c) ==
  /\ At(c, "validate_input")
  /\ \E r \in ParseOutcomes : Step(c, validateInputStep(calls[c], c, r))

PreHook(c) ==
  /\ At(c, "pre_hooks")
  /\ \E r \in HookOutcomes : Step(c, preHookStep(calls[c], r))

Execute(c) ==
  /\ At(c, "execute")
  /\ \E r \in HandlerOutcomes : Step(c, executeStep(calls[c], r))

ValidateOutput(c) ==
  /\ At(c, "validate_output")
  /\ \E r \in ParseOutcomes : Step(c, validateOutputStep(calls[c], r))

PostHook(c) ==
  /\ At(c, "post_hooks")
  /\ \E r \in HookOutcomes : Step(c, postHookStep(calls[c], r))

Respond(c) ==
  /\ At(c, "respond")
  /\ Step(c, respondStep(calls[c]))

Next ==
  \/ \E t \in ToolDefs : registerTool(t)
  \/ \E m \in MiddlewareKinds : use(m)
  \/ useAuth
  \/ start
  \/ \E c \in Calls : Resolve(c)
  \/ \E c \in Calls : ValidateInput(c)
  \/ \E c \in Calls : PreHook(c)
  \/ \E c \in Calls : Execute(c)
  \/ \E c \in Calls : ValidateOutput(c)
  \/ \E c \in Calls : PostHook(c)
  \/ \E c \in Calls : Respond(c)

Spec == Init /\ [][Next]_vars

\* A server that is not running: the state the middleware factories and
\* the catalog are exercised from.
InitIdle == Init /\ middlewares = <<>>

\* ------------------------------------------------ calls that are in flight together
\* The call handler is an async function: each request starts its own run of
\* it, and the runs interleave at every await.
ConcurrentCalls == 1..NumConcurrent

\* A tool with one pre-hook and one post-hook.
ConcurrentToolDefs ==
  { [name |-> "greet", preHandler |-> HookList(1), postHandler |-> HookList(1)] }

InitConcurrent ==
  /\ tools = <<>>
  /\ middlewares = <<>>
  /\ started = FALSE
  /\ calls = [c \in ConcurrentCalls |-> NewCall]
  /\ cancelled = {}
  /\ registration = NoRegistration
  /\ InitSide
  /\ node = NoNode

NextConcurrent ==
  \/ \E t \in ConcurrentToolDefs : registerTool(t)
  \/ start
  \/ \E c \in ConcurrentCalls : Resolve(c)
  \/ \E c \in ConcurrentCalls : ValidateInput(c)
  \/ \E c \in ConcurrentCalls : PreHook(c)
  \/ \E c \in ConcurrentCalls : Execute(c)
  \/ \E c \in ConcurrentCalls : ValidateOutput(c)
  \/ \E c \in ConcurrentCalls : PostHook(c)
  \/ \E c \in ConcurrentCalls : Respond(c)

SpecConcurrent == InitConcurrent /\ [][NextConcurrent]_vars

\* ------------------------------------------------------ a cancelled call
\* The stages of the pipeline after RESOLVE, for one call.
Advance(c) ==
  \/ ValidateInput(c)
  \/ PreHook(c)
  \/ Execute(c)
  \/ ValidateOutput(c)
  \/ PostHook(c)
  \/ Respond(c)

\* The peer cancels the request of call c while its handler is running.  The
\* handler takes the request alone, (request: CallToolRequest) => ..., and
\* reads no abort signal: the cancellation changes nothing it looks at.
cancel(c) ==
  /\ calls[c].pc \notin {"idle", "done"}
  /\ c \notin cancelled
  /\ cancelled' = cancelled \cup {c}
  /\ UNCHANGED <<tools, middlewares, started, calls, registration, sideVars>>

NextCancel ==
  \/ \E t \in ConcurrentToolDefs : registerTool(t)
  \/ start
  \/ \E c \in Calls : Resolve(c)
  \/ \E c \in Calls : Advance(c)
  \/ \E c \in Calls : cancel(c)

SpecCancel == InitIdle /\ [][NextCancel]_vars

\* The event loop resumes every run of the handler whose awaited promise has
\* settled: a call that can take a stage eventually takes one.  A promise
\* that never settles (the outcome "hang") leaves its own run suspended for
\* ever; nothing in the pipeline times it out.
SpecConcurrentFair ==
  /\ SpecConcurrent
  /\ \A c \in ConcurrentCalls : WF_vars(Advance(c))

\* ------------------------------------------- the rate-limit middleware
\* createRateLimitMiddleware(options): parses a string window, builds the
\* limiter; a window that does not parse makes the factory throw.  One call
\* of the factory is followed.
createRateLimitMiddleware(o) ==
  /\ limiter = NoLimiter
  /\ LET w == IF o.timeWindow.type = "string"
                THEN parseTimeWindow(o.timeWindow.text)
                ELSE [error |-> "", ms |-> o.timeWindow.value]
     IN limiter' = IF w.error # ""
                     THEN [NoLimiter EXCEPT !.error = w.error, !.options = o]
                     ELSE [built |-> TRUE, error |-> "", max |-> o.max,
                           windowMs |-> w.ms, options |-> o]
  /\ UNCHANGED <<requests, now, rlLog, rlRes, inflight, serverVars, registration, authVars, schemaVars, listings>>

\* Time passes: Date.now() never goes back.
tick ==
  /\ \E t \in Instants : t > now /\ now' = t
  /\ UNCHANGED <<limiter, requests, rlLog, rlRes, inflight, serverVars, registration, authVars, schemaVars, listings>>

\* The middleware on one request: the key, limiter.check(key), then either
\* the 429 response or next().
rateLimitMiddleware(req) ==
  /\ limiter.built
  /\ Len(rlLog) < MaxChecks
  /\ LET key == rateLimitKey(req)
         r == check(limiter, requests, key, now)
     IN /\ requests' = r.requests
        /\ rlLog' = Append(rlLog, [op |-> "check", key |-> key, at |-> now, ok |-> r.ok])
        /\ rlRes' = IF r.ok
                      THEN [req |-> req, key |-> key, status |-> 0,
                            error |-> "", next |-> 1]
                      ELSE [req |-> req, key |-> key, status |-> 429,
                            error |-> "Too many requests", next |-> 0]
  /\ UNCHANGED <<limiter, now, inflight, serverVars, registration, authVars, schemaVars, listings>>

NextRL ==
  \/ \E o \in RLOptions : createRateLimitMiddleware(o)
  \/ tick
  \/ \E req \in RlRequests : rateLimitMiddleware(req)

SpecRL == InitIdle /\ [][NextRL]_vars

\* The factory alone, over every short time-window string and a few numbers.
WindowChars == {"0", "1", "2", "s", "m", "h", "d", "x"}
\* Windows of at most 2^31 - 1 ms, the integers of the model.
InRange(t) ==
  Matches(t) =>
    parseInt(SubSeq(t, 1, Len(t) - 1)) <= 2147483647 \div multipliers[t[Len(t)]]
WindowTexts ==
  {t \in UNION {[1..n -> WindowChars] : n \in 0..MaxWindowLen} : InRange(t)}
WindowOptions ==
  { [max |-> 1, timeWindow |-> w] :
      w \in {Str(t) : t \in WindowTexts} \cup {Num(0), Num(400), Num(1000)} }

NextWindow == \E o \in WindowOptions : createRateLimitMiddleware(o)

SpecWindow == InitIdle /\ [][NextWindow]_vars

\* ------------------------------------------ the limiter with check and reset
\* Faulty variant of resetKey: the whole map is cleared.
resetClearsAll(reqs, key) == <<>>

\* this.requests.delete(key): the map without the key.
resetKey(reqs, key) == [k \in DOMAIN reqs \ {key} |-> reqs[k]]

\* RateLimiter.reset(key), called by the owner of the limiter.
reset(key) ==
  /\ limiter.built
  /\ Len(rlLog) < MaxChecks
  /\ requests' = resetKey(requests, key)
  /\ rlLog' = Append(rlLog, [op |-> "reset", key |-> key, at |-> now, ok |-> FALSE])
  /\ UNCHANGED <<limiter, now, rlRes, inflight, serverVars, registration, authVars, schemaVars, listings>>

NextLimiter ==
  \/ \E o \in RLOptions : createRateLimitMiddleware(o)
  \/ tick
  \/ \E req \in ArrivalRequests : rateLimitMiddleware(req)
  \/ \E req \in ArrivalRequests : reset(rateLimitKey(req))

SpecLimiter == InitIdle /\ [][NextLimiter]_vars

\* ------------------------- requests that reach the rate limiter together
\* Faulty variant of RunsToCompletion: check suspends between reading the
\* history of the key and storing it, so another request's check may start
\* in between.
RunsInterleaved(a) == TRUE

\* The middleware and check are synchronous functions without an await: the
\* event loop starts the callback of another request only when no check is
\* under way.
RunsToCompletion(a) == \A b \in Arrivals \ {a} : inflight[b].pc # "checking"

\* const key = ...; check(key): const now = Date.now(); const requests =
\* this.requests.get(key) || []; const validRequests = requests.filter(...)
beginCheck(a, req) ==
  /\ limiter.built
  /\ inflight[a].pc = "waiting"
  /\ RunsToCompletion(a)
  /\ LET key == rateLimitKey(req)
         stored == IF key \in DOMAIN requests THEN requests[key] ELSE <<>>
     IN inflight' =
          [inflight EXCEPT ![a] =
             [pc |-> "checking", req |-> req, key |-> key, at |-> now,
              validRequests |->
                SelectSeq(stored, LAMBDA time : now - time < limiter.windowMs)]]
  /\ UNCHANGED <<limiter, requests, now, rlLog, rlRes, serverVars, registration, authVars, schemaVars, listings>>

\* if (validRequests.length >= this.max) return false;
\* validRequests.push(now); this.requests.set(key, validRequests); return true
\* and, in the middleware, the 429 response or next().
endCheck(a) ==
  /\ inflight[a].pc = "checking"
  /\ LET l == inflight[a]
         ok == Len(l.validRequests) < limiter.max
     IN /\ requests' =
             IF ok
               THEN [k \in DOMAIN requests \cup {l.key} |->
                       IF k = l.key THEN Append(l.validRequests, l.at) ELSE requests[k]]
               ELSE requests
        /\ rlLog' = Append(rlLog, [op |-> "check", key |-> l.key, at |-> l.at, ok |-> ok])
        /\ inflight' = [inflight EXCEPT ![a].pc = IF ok THEN "admitted" ELSE "refused"]
        /\ rlRes' = IF ok
                      THEN [req |-> l.req, key |-> l.key, status |-> 0,
                            error |-> "", next |-> 1]
                      ELSE [req |-> l.req, key |-> l.key, status |-> 429,
                            error |-> "Too many requests", next |-> 0]
  /\ UNCHANGED <<limiter, now, serverVars, registration, authVars, schemaVars, listings>>

NextArrivals ==
  \/ \E o \in RLOptions : createRateLimitMiddleware(o)
  \/ tick
  \/ \E a \in Arrivals, req \in ArrivalRequests : beginCheck(a, req)
  \/ \E a \in Arrivals : endCheck(a)

SpecArrivals == InitIdle /\ [][NextArrivals]_vars

\* ------------------------------------------------- the auth middleware
\* createAuthMiddleware(options): closes over the options.
createAuthMiddleware(o) ==
  /\ ~auth.built
  /\ auth' = [built |-> TRUE, type |-> o.type, headerName |-> o.headerName,
              validate |-> o.validate]
  /\ UNCHANGED <<authRes, serverVars, registration, rlVars, schemaVars, listings>>

\* The returned middleware on one request (it keeps nothing between
\* requests, so one request is followed).
authMiddleware(headers) ==
  /\ auth.built
  /\ ~authRes.handled
  /\ \E r \in ValidateOutcomes : authRes' = authStep(auth, headers, r)
  /\ UNCHANGED <<auth, serverVars, registration, rlVars, schemaVars, listings>>

NextAuth ==
  \/ \E o \in AuthOptionsSet : createAuthMiddleware(o)
  \/ \E headers \in AuthRequests : authMiddleware(headers)

SpecAuth == InitIdle /\ [][NextAuth]_vars

\* ------------------------------------------------------- the tool catalog
\* The ListToolsRequestSchema handler.
listTools ==
  /\ Len(listings) < MaxListings
  /\ listings' = Append(listings, [op |-> "listTools", registered |-> Len(tools),
                                   result |-> mcpTools(tools)])
  /\ UNCHANGED <<serverVars, registration, rlVars, authVars, schemaVars>>

\* getTools(): a copy of the registry.
getTools ==
  /\ Len(listings) < MaxListings
  /\ listings' = Append(listings, [op |-> "getTools", registered |-> Len(tools),
                                   result |-> [threw |-> "", items |-> tools]])
  /\ UNCHANGED <<serverVars, registration, rlVars, authVars, schemaVars>>

\* getManifest(): generateManifest(config, tools).
getManifest ==
  /\ Len(listings) < MaxListings
  /\ listings' = Append(listings, [op |-> "getManifest", registered |-> Len(tools),
                                   result |-> generateManifest(tools)])
  /\ UNCHANGED <<serverVars, registration, rlVars, authVars, schemaVars>>

NextCatalog ==
  \/ \E t \in CatalogDefs : registerTool(t)
  \/ listTools
  \/ getTools
  \/ getManifest

SpecCatalog == InitIdle /\ [][NextCatalog]_vars

\* ---------------------------------------------------- the translator alone
InitSchema == InitServer /\ middlewares = <<>> /\ InitSide /\ node \in SchemaNodes

translate ==
  /\ doc = NoDoc
  /\ doc' = zodToJsonSchema(node)
  /\ UNCHANGED <<node, serverVars, registration, rlVars, authVars, listings>>

NextSchema == translate

SpecSchema == InitSchema /\ [][NextSchema]_vars

\* ================================================================ claims
Range(f) == {f[i] : i \in DOMAIN f}

Done(c) == calls[c].pc = "done"

\* C1: a fault raised after RESOLVE (by the validator, a pre-hook, the handler,
\* a post-hook or the serialization of the output) ends the call with a
\* returned response, never a rejection: isError is set, the text carries
\* 'Tool execution failed' and the message of the fault, and not its stack.
C1_FaultBecomesErrorEnvelope ==
  \A c \in Calls :
    LET s == calls[c] IN
    s.faultAt # "" =>
      /\ s.pc = "done"
      /\ ~s.rejected
      /\ s.response.isError
      /\ s.response.text =
           <<"error", "Tool execution failed", "message",
             IF s.fault.instanceOfError THEN s.fault.message ELSE s.fault.asString>>
      /\ s.fault.stack # "" => s.fault.stack \notin Range(s.response.text)

\* The handler threw Error('Division by zero') and the call has ended.
C1_Witness ==
  \E c \in Calls :
    /\ Done(c)
    /\ calls[c].faultAt = "execute"
    /\ calls[c].fault.message = "Division by zero"

\* C2: when the parse of the arguments ends with a ZodError, the call ends
\* with the 'Input validation failed' error response and no pre-hook, handler
\* or post-hook has been invoked.
C2_InvalidInputStopsCall ==
  \A c \in Calls :
    LET s == calls[c] IN
    s.inputResult = "zod" =>
      /\ s.pc = "done"
      /\ s.response =
           [isError |-> TRUE,
            text |-> <<"error", "Input validation failed", "details", "issues">>]
      /\ s.invoked.pre = 0
      /\ s.invoked.handler = 0
      /\ s.invoked.post = 0

\* Input validation failed for a tool that has pre-hooks and post-hooks.
C2_Witness ==
  \E c \in Calls :
    /\ calls[c].inputResult = "zod"
    /\ Len(calls[c].tool.preHandler) > 0
    /\ Len(calls[c].tool.postHandler) > 0

\* C3: a call whose name no registered tool bears ends in the step that
\* receives it, with the 'not found' error response; that step invokes no
\* validator, hook or handler and leaves the registry as it was, and a call
\* that has ended does nothing more.
C3_UnknownToolStep ==
  \A c \in Calls :
    /\ ( /\ calls[c].pc = "idle"
         /\ calls'[c].pc # "idle"
         /\ ~\E i \in 1..Len(tools) : tools[i].name = calls'[c].name )
       => /\ calls'[c].pc = "done"
          /\ calls'[c].response =
               [isError |-> TRUE, text |-> <<"error", "Tool not found", calls'[c].name>>]
          /\ calls'[c].invoked = NoInvoked
          /\ calls'[c].tool = NoTool
          /\ tools' = tools
    /\ calls[c].pc = "done" => calls'[c] = calls[c]

C3_UnknownToolNotFound == [][C3_UnknownToolStep]_vars

\* A call to an unknown name has ended while another tool is registered.
C3_Witness ==
  \E c \in Calls :
    /\ Done(c)
    /\ calls[c].name = "missing"
    /\ calls[c].response.isError
    /\ Len(tools) > 0

\* C4.  Success(s): the response is the success envelope of the final output.
Success(s) == ~s.response.isError /\ s.response.text = <<"json", s.output>>

\* The tool resolved, input validation succeeded, every pre-hook, the handler
\* and every post-hook returned without fault, output validation succeeded.
AllStagesPassed(s) ==
  /\ s.tool # NoTool
  /\ s.inputResult = "ok"
  /\ {"pre_hooks", "execute", "post_hooks"} \subseteq s.passed
  /\ s.invoked.pre = Len(s.tool.preHandler)
  /\ s.invoked.handler = 1
  /\ s.invoked.post = Len(s.tool.postHandler)
  /\ s.faultAt \notin {"pre_hooks", "execute", "post_hooks"}
  /\ s.outputResult = "ok"

OneResponse(c) ==
  /\ ~calls[c].rejected
  /\ Done(c) <=> calls[c].response # NoResponse

\* C4 as claimed: a completed call has one response, which is the success
\* envelope exactly when all stages passed, and an error response otherwise.
C4_SuccessIffAllStagesPassed ==
  \A c \in Calls :
    /\ OneResponse(c)
    /\ Done(c) =>
         /\ Success(calls[c]) <=> AllStagesPassed(calls[c])
         /\ ~Success(calls[c]) => calls[c].response.isError

\* C4 as amended: ... exactly when all stages passed and the final output
\* could be serialized.
C4_SuccessIffPassedAndSerialized ==
  \A c \in Calls :
    /\ OneResponse(c)
    /\ Done(c) =>
         /\ Success(calls[c]) <=>
              (AllStagesPassed(calls[c]) /\ calls[c].output \in Values \ {"big"})
         /\ ~Success(calls[c]) => calls[c].response.isError

\* All stages passed, the output could not be serialized, the call ended.
C4_Witness ==
  \E c \in Calls :
    /\ Done(c)
    /\ AllStagesPassed(calls[c])
    /\ calls[c].faultAt = "respond"
    /\ calls[c].response.isError

\* C5: per call the stages follow the order RESOLVE .. RESPOND: the stage
\* only moves forward, a stage holds user code that ran only after the stage
\* before it was passed, the handler runs at most once, exactly once in a
\* call that went beyond the pre-hooks, and with the input the pre-hooks left.
StageRank(p) ==
  CASE p = "idle" -> 0
    [] p = "validate_input" -> 2
    [] p = "pre_hooks" -> 3
    [] p = "execute" -> 4
    [] p = "validate_output" -> 5
    [] p = "post_hooks" -> 6
    [] p = "respond" -> 7
    [] OTHER -> 8

C5_StageStep ==
  \A c \in Calls :
    /\ calls'[c].pc # calls[c].pc => StageRank(calls'[c].pc) > StageRank(calls[c].pc)
    /\ (calls'[c] # calls[c] /\ calls'[c].pc = calls[c].pc) =>
         /\ calls[c].pc \in {"pre_hooks", "post_hooks"}
         /\ calls'[c].hookIdx = calls[c].hookIdx + 1
    /\ calls'[c].invoked.handler > calls[c].invoked.handler =>
         /\ calls[c].pc = "execute"
         /\ calls'[c].seen.kind = "handler"
         /\ calls'[c].seen.input = calls[c].input

C5_StageState ==
  \A c \in Calls :
    LET s == calls[c] IN
    /\ s.invoked.handler <= 1
    /\ s.invoked.validate <= 2
    /\ s.invoked.pre > 0 => "validate_input" \in s.passed
    /\ s.invoked.handler > 0 =>
         ("pre_hooks" \in s.passed /\ s.invoked.pre = Len(s.tool.preHandler))
    /\ s.invoked.validate > 1 => "execute" \in s.passed
    /\ s.invoked.post > 0 => "validate_output" \in s.passed
    /\ Success(s) => s.invoked.post = Len(s.tool.postHandler)
    /\ (StageRank(s.pc) > 4 /\ "pre_hooks" \in s.passed) => s.invoked.handler = 1
    /\ StageRank(s.pc) <= 4 => s.invoked.handler = 0
    /\ s.seen.kind = "handler" => s.seen.input = s.input

C5_StagesInOrder == []C5_StageState /\ [][C5_StageStep]_vars

\* A call ran two pre-hooks, the handler and two post-hooks and succeeded.
C5_Witness ==
  \E c \in Calls :
    /\ Done(c)
    /\ Success(calls[c])
    /\ calls[c].invoked = [validate |-> 2, pre |-> 2, handler |-> 1, post |-> 2]

\* C6 as claimed: pre-hooks are invoked in list order, each with the input
\* the hooks before it left; once a pre-hook has returned a replacement input,
\* the next pre-hook or the handler is invoked with that replacement.
C6_PreHookStep ==
  \A c \in Calls :
    /\ calls'[c].invoked.pre > calls[c].invoked.pre =>
         /\ calls'[c].invoked.pre = calls[c].invoked.pre + 1
         /\ calls'[c].seen.kind = "pre"
         /\ calls'[c].seen.hook = calls[c].tool.preHandler[calls'[c].invoked.pre]
         /\ calls'[c].seen.input = calls[c].input
    /\ ( /\ \/ calls'[c].invoked.pre > calls[c].invoked.pre
            \/ calls'[c].invoked.handler > calls[c].invoked.handler
         /\ calls[c].preRepl # NoValue )
       => calls'[c].seen.input = calls[c].preRepl

C6_ReplacementObserved == [][C6_PreHookStep]_vars

\* C7 as claimed: post-hooks are invoked in list order, each with the call's
\* context, the input the handler was given and the current output; once a
\* post-hook has returned a replacement output, the next post-hook is invoked
\* with it and a success response carries it.
C7_PostHookStep ==
  \A c \in Calls :
    /\ calls'[c].invoked.post > calls[c].invoked.post =>
         /\ calls'[c].invoked.post = calls[c].invoked.post + 1
         /\ calls'[c].seen.kind = "post"
         /\ calls'[c].seen.hook = calls[c].tool.postHandler[calls'[c].invoked.post]
         /\ calls'[c].seen.ctx = c
         /\ calls'[c].seen.input = calls[c].seen.input
         /\ calls'[c].seen.output = calls[c].output
         /\ calls'[c].input = calls[c].input
         /\ calls[c].postRepl # NoValue => calls'[c].seen.output = calls[c].postRepl
    /\ ( /\ calls[c].pc = "respond"
         /\ calls'[c].pc = "done"
         /\ ~calls'[c].response.isError
         /\ calls[c].postRepl # NoValue )
       => calls'[c].response.text = <<"json", calls[c].postRepl>>

C7_OutputReplacementObserved == [][C7_PostHookStep]_vars

\* C8: when a pre-hook throws, the call ends there: no later pre-hook, no
\* handler, no output validation and no post-hook is invoked, and the
\* response is the one a handler that throws the same value produces.
C8_PreHookFaultAborts ==
  \A c \in Calls :
    LET s == calls[c] IN
    s.faultAt = "pre_hooks" =>
      /\ s.pc = "done"
      /\ s.invoked.pre = s.hookIdx
      /\ s.invoked.handler = 0
      /\ s.invoked.validate = 1
      /\ s.invoked.post = 0
      /\ s.response.isError
      /\ s.response = executeStep(NewCall, Outcome("throw", NoValue, s.fault)).response

\* The first of two pre-hooks threw, for a tool that also has post-hooks.
C8_Witness ==
  \E c \in Calls :
    /\ Done(c)
    /\ calls[c].faultAt = "pre_hooks"
    /\ calls[c].hookIdx = 1
    /\ Len(calls[c].tool.preHandler) = 2
    /\ Len(calls[c].tool.postHandler) > 0

\* C9: when the parse of the handler's result ends with a ZodError, the call
\* ends with the 'Output validation failed' error response and no post-hook
\* is invoked; the rejected output is in no success envelope.
C9_InvalidOutputStopsCall ==
  \A c \in Calls :
    LET s == calls[c] IN
    s.outputResult = "zod" =>
      /\ s.pc = "done"
      /\ s.response =
           [isError |-> TRUE,
            text |-> <<"error", "Output validation failed", "details", "issues">>]
      /\ s.invoked.post = 0
      /\ ~Success(s)

\* Output validation failed for a tool that has post-hooks.
C9_Witness ==
  \E c \in Calls :
    /\ calls[c].outputResult = "zod"
    /\ calls[c].invoked.handler = 1
    /\ Len(calls[c].tool.postHandler) > 0

\* C10 as claimed: a call whose tool resolved enters the pipeline only when
\* every middleware registered on the server at that moment has run for it
\* and called next().
C10_AdmissionStep ==
  \A c \in Calls :
    (calls[c].pc = "idle" /\ calls'[c].pc = "validate_input") =>
      \A i \in 1..Len(middlewares) : i \in calls'[c].admitted

C10_MiddlewareAdmitsFirst == [][C10_AdmissionStep]_vars

\* ------------------------------------------------------ C11 .. C12 (SpecRL)
RlKeys == {rateLimitKey(r) : r \in RlRequests}

\* The checks of the log that were accepted for key with a time in (lo, hi].
AcceptedIn(log, key, lo, hi) ==
  {i \in 1..Len(log) : log[i].key = key /\ log[i].ok /\ lo < log[i].at /\ log[i].at <= hi}

\* C11: with a clock that never goes back, for every key and every instant
\* t, at most max of the checks accepted for that key carry a time in
\* (t - windowMs, t].  (The count of a window is largest when t is the time
\* of an accepted check, so t ranges over the instants the clock is read at.)
C11_AcceptedPerWindowAtMostMax ==
  limiter.built =>
    \A key \in RlKeys, t \in Instants :
      Cardinality(AcceptedIn(rlLog, key, t - limiter.windowMs, t)) <= limiter.max

\* A key that was accepted max times in one window, refused, and accepted
\* again later.
C11_Witness ==
  /\ limiter.built /\ limiter.max = 2
  /\ \E i, j, k \in 1..Len(rlLog) :
       /\ i < j /\ j < k
       /\ rlLog[i].key = rlLog[j].key /\ rlLog[j].key = rlLog[k].key
       /\ rlLog[i].ok /\ ~rlLog[j].ok /\ rlLog[k].ok
       /\ rlLog[j].at - rlLog[i].at < limiter.windowMs

\* C12: check(key) accepts exactly when fewer than max of the checks
\* accepted before for that key are less than windowMs old, and then
\* records the current time as the newest entry of the key; a refusal
\* leaves the stored map as it was.
C12_CheckStep ==
  (rlLog' # rlLog) =>
    LET e == rlLog'[Len(rlLog')]
        recent == {i \in 1..Len(rlLog) :
                     /\ rlLog[i].key = e.key /\ rlLog[i].ok
                     /\ now - rlLog[i].at < limiter.windowMs}
    IN /\ e.at = now
       /\ e.ok <=> (Cardinality(recent) < limiter.max)
       /\ e.ok => /\ e.key \in DOMAIN requests'
                  /\ Len(requests'[e.key]) = Cardinality(recent) + 1
                  /\ requests'[e.key][Len(requests'[e.key])] = now
                  /\ \A k \in DOMAIN requests' \ {e.key} :
                       k \in DOMAIN requests /\ requests'[k] = requests[k]
       /\ ~e.ok => requests' = requests

NamesOf(ts) == [i \in 1..Len(ts) |-> ts[i].name]

\* C13: registerTool with a name that is already registered fails with the
\* duplicate-tool error and leaves the registry as it was (same entries,
\* same order, the first descriptor kept); a registerTool that throws
\* nothing appends its descriptor; no two registered tools share a name.
C13_RegisterStep ==
  /\ (registration' # registration \/ tools' # tools) =>
       IF \E i \in 1..Len(tools) : tools[i].name = registration'.name
         THEN /\ registration'.threw = DuplicateTool(registration'.name)
              /\ tools' = tools
         ELSE /\ registration'.threw = <<>>
              /\ Len(tools') = Len(tools) + 1
              /\ SubSeq(tools', 1, Len(tools)) = tools
              /\ tools'[Len(tools')].name = registration'.name
  /\ \A i, j \in 1..Len(tools') : i # j => tools'[i].name # tools'[j].name

C13_DuplicateRejected == [][C13_RegisterStep]_vars

\* A registry of one tool after a second registration under its name failed.
C13_Witness ==
  /\ Len(tools) = 1
  /\ registration = [name |-> tools[1].name, threw |-> DuplicateTool(tools[1].name)]

\* C14: the catalog of the list-tools handler, getTools() and the manifest
\* each list the registered tools in the order of the successful
\* registerTool calls (a successful call puts its tool last), and two
\* listings by the same operation with no registration between them return
\* the same sequence.
C14_ListingStep ==
  /\ (tools' # tools) =>
       /\ registration'.threw = <<>>
       /\ NamesOf(tools') = Append(NamesOf(tools), registration'.name)
  /\ (listings' # listings) =>
       LET l == listings'[Len(listings')]
       IN /\ l.result.threw = ""
          /\ NamesOf(l.result.items) = NamesOf(tools)
          /\ \A i \in 1..Len(listings) :
               (listings[i].op = l.op /\ listings[i].registered = Len(tools))
                 => listings[i].result = l.result

C14_CatalogInRegistrationOrder == [][C14_ListingStep]_vars

\* Two tools registered, then listed twice by the list-tools handler.
C14_Witness ==
  /\ Len(tools) = 2
  /\ Len(listings) = 2
  /\ \A i \in 1..2 : listings[i].op = "listTools" /\ listings[i].registered = 2
  /\ NamesOf(listings[2].result.items) = <<"calculate", "greet">>

\* ---------------------------------------------------------- C15 (SpecAuth)
\* The token the configured scheme names: the first value of the configured
\* header for apiKey, the text after 'Bearer ' for bearer.
SchemeToken(o, headers) ==
  CASE o.type = "apiKey" ->
         FirstText(headers[ToLowerCase(IF o.headerName = NoValue
                                         THEN "x-api-key" ELSE o.headerName)])
    [] o.type = "bearer" ->
         LET h == FirstText(headers["authorization"])
             n == Len(BearerPrefix)
         IN IF Len(h) >= n /\ \A i \in 1..n : h[i] = BearerPrefix[i]
              THEN [i \in 1..(Len(h) - n) |-> h[i + n]]
              ELSE <<>>
    [] OTHER -> <<>>

\* C15: the auth middleware invokes the continuation exactly once if a
\* non-empty token is extracted by the configured scheme and validate, when
\* present, returns true; in every other case it sends a 401 response and
\* never invokes the continuation; validate is not called when no token is
\* extracted.
C15_NextOnceOr401 ==
  authRes.handled =>
    LET token == SchemeToken(auth, authRes.headers)
        accepted == /\ token # <<>>
                    /\ auth.validate = "present" => authRes.outcome = "true"
    IN /\ accepted => (authRes.next = 1 /\ authRes.status = 0)
       /\ ~accepted => (authRes.next = 0 /\ authRes.status = 401)
       /\ token = <<>> => authRes.validated = 0

\* ------------------------------------------------------------ C16 (SpecRL)
\* The key the claim names: the caller's ip, else the first x-forwarded-for
\* value, else 'unknown'.
CallerKey(req) ==
  LET forwarded == CASE req.xff.type = "string" -> <<req.xff.value>>
                     [] req.xff.type = "array" -> req.xff.items
                     [] OTHER -> <<>>
  IN IF req.ip \notin {NoValue, ""} THEN req.ip
     ELSE IF forwarded # <<>> /\ forwarded[1] # "" THEN forwarded[1]
     ELSE "unknown"

\* C16: on every request the rate-limit middleware does exactly one of two
\* things: it invokes the continuation once, when the limiter accepts the
\* key, or it sends a 429 response and does not invoke the continuation;
\* the key is the caller's ip, else the first x-forwarded-for value, else
\* 'unknown'.
C16_RequestStep ==
  (rlLog' # rlLog) =>
    LET e == rlLog'[Len(rlLog')]
    IN /\ rlRes'.key = CallerKey(rlRes'.req)
       /\ e.key = rlRes'.key
       /\ \/ rlRes'.next = 1 /\ rlRes'.status = 0 /\ e.ok
          \/ rlRes'.next = 0 /\ rlRes'.status = 429 /\ ~e.ok

C16_NextOr429 == [][C16_RequestStep]_vars

\* A request without ip is refused under the first value of its
\* x-forwarded-for list, after a request from that ip was let through.
C16_Witness ==
  /\ rlRes.status = 429 /\ rlRes.next = 0
  /\ rlRes.req.ip = NoValue /\ rlRes.req.xff.type = "array"
  /\ rlRes.key = rlRes.req.xff.items[1]
  /\ \E i \in 1..Len(rlLog) : rlLog[i].key = rlRes.key /\ rlLog[i].ok

\* -------------------------------------------------------- C17 (SpecWindow)
RECURSIVE Pow10(_)
Pow10(n) == IF n = 0 THEN 1 ELSE 10 * Pow10(n - 1)

RECURSIVE DecimalSum(_, _)
DecimalSum(ds, i) ==
  IF i > Len(ds) THEN 0
  ELSE DigitValue(ds[i]) * Pow10(Len(ds) - i) + DecimalSum(ds, i + 1)

UnitMs(u) ==
  CASE u = "s" -> 1000 [] u = "m" -> 60000 [] u = "h" -> 3600000 [] u = "d" -> 86400000

\* A decimal integer followed by exactly one unit.
WellFormedWindow(t) ==
  \E n \in 1..(Len(t) - 1) :
    /\ Len(t) = n + 1
    /\ \A i \in 1..n : t[i] \in {"0", "1", "2", "3", "4", "5", "6", "7", "8", "9"}
    /\ t[n + 1] \in {"s", "m", "h", "d"}

\* C17: a string window is accepted only if it is a decimal integer followed
\* by exactly one unit of s, m, h, d, and then is that integer times 1000,
\* 60000, 3600000 or 86400000 ms; any other string makes
\* createRateLimitMiddleware fail when it is called; a numeric window is
\* used as milliseconds unchanged.
C17_WindowParsedOrRejected ==
  (limiter # NoLimiter) =>
    LET w == limiter.options.timeWindow
        t == w.text
    IN IF w.type = "number"
         THEN limiter.built /\ limiter.windowMs = w.value
       ELSE IF WellFormedWindow(t)
         THEN /\ limiter.built
              /\ limiter.windowMs =
                   DecimalSum(SubSeq(t, 1, Len(t) - 1), 1) * UnitMs(t[Len(t)])
       ELSE ~limiter.built /\ limiter.error = InvalidWindow

\* '12m' became 720000 ms.
C17_Witness ==
  /\ limiter.built
  /\ limiter.options.timeWindow = Str(<<"1", "2", "m">>)
  /\ limiter.windowMs = 720000

\* ------------------------------------------------- C18 .. C19 (SpecSchema)
\* A schema wrapped in Optional at any wrapping depth: an Optional, or a
\* Nullable or Optional around one.
RECURSIVE WrappedInOptional(_)
WrappedInOptional(n) ==
  \/ n.kind = "ZodOptional"
  \/ n.kind = "ZodNullable" /\ WrappedInOptional(n.innerType)

\* C18: the translated required of an object schema holds exactly the names
\* of the properties whose schema is not wrapped in Optional (at any
\* wrapping depth, so Nullable around Optional counts as wrapped), in
\* declaration order, and is left out when it would be empty; an Optional
\* node translates to the translation of its inner node.
C18_RequiredIsNotOptional ==
  /\ (doc # NoDoc /\ node.kind = "ZodObject") =>
       LET notOptional == SelectSeq(node.shape, LAMBDA p : ~WrappedInOptional(p.value))
           names == [i \in 1..Len(notOptional) |-> notOptional[i].key]
       IN IF names = <<>>
            THEN "required" \notin DOMAIN doc
            ELSE "required" \in DOMAIN doc /\ doc.required = names
  /\ (doc # NoDoc /\ node.kind = "ZodOptional") =>
       doc = zodToJsonSchema(node.innerType)

\* No translation inside the document threw, and every node of it has a type.
RECURSIVE Complete(_)
Complete(d) ==
  /\ ~Threw(d)
  /\ "type" \in DOMAIN d
  /\ "properties" \in DOMAIN d =>
       \A i \in 1..Len(d.properties) : Complete(d.properties[i].value)
  /\ "items" \in DOMAIN d => Complete(d.items)

Supported ==
  {"ZodObject", "ZodString", "ZodNumber", "ZodBoolean", "ZodArray", "ZodOptional",
   "ZodNullable", "ZodEnum", "ZodLiteral"}

\* The schema nodes of a schema: itself and everything nested in it.
RECURSIVE NodesOf(_)
NodesOf(n) ==
  {n} \cup
    CASE n.kind = "ZodObject" -> UNION {NodesOf(n.shape[i].value) : i \in 1..Len(n.shape)}
      [] n.kind = "ZodArray" -> NodesOf(n.type)
      [] n.kind \in {"ZodOptional", "ZodNullable"} -> NodesOf(n.innerType)
      [] OTHER -> {}

\* C19: zodToJsonSchema returns a document for every schema, whether an
\* unrecognized variant is the root or is nested inside objects, arrays,
\* Optional or Nullable; an unrecognized variant becomes {type: 'object'}.
C19_TranslationIsTotal ==
  (doc # NoDoc) =>
    /\ Complete(doc)
    /\ node.kind \notin Supported => doc = [type |-> "object"]
    /\ \A n \in NodesOf(node) :
         n.kind \notin Supported => zodToJsonSchema(n) = [type |-> "object"]

\* An object with an unrecognized variant under Nullable and Optional, and
\* another inside an array, translated.
C19_Witness ==
  /\ doc # NoDoc
  /\ node.kind = "ZodObject" /\ Len(node.shape) = 2
  /\ node.shape[1].value = ZNullable(ZOptional(ZOther("ZodDefault")))
  /\ node.shape[2].value = ZArray(ZOther("ZodDefault"))
  /\ doc.properties[2].value = [type |-> "array", items |-> [type |-> "object"]]

\* --------------------------------------------------------- C20 (SpecCatalog)
\* C20: whatever the root variant of a registered tool's input schema, the
\* inputSchema of its catalog entry has type 'object' and a properties map
\* (the translation's, or an empty one when the translation has none), and
\* every other field of the translation unchanged.
C20_InputSchemaIsObject ==
  \A k \in 1..Len(listings) :
    listings[k].op = "listTools" =>
      /\ Len(listings[k].result.items) = listings[k].registered
      /\ \A i \in 1..listings[k].registered :
           LET translated == zodToJsonSchema(tools[i].inputSchema)
               inputSchema == listings[k].result.items[i].inputSchema
           IN /\ DOMAIN inputSchema = DOMAIN translated \cup {"type", "properties"}
              /\ inputSchema.type = "object"
              /\ inputSchema.properties =
                   IF "properties" \in DOMAIN translated
                     THEN translated.properties ELSE <<>>
              /\ \A f \in DOMAIN translated \ {"type", "properties"} :
                   inputSchema[f] = translated[f]

\* A tool whose input schema is a string of at most 5 characters is listed
\* with type 'object', maxLength 5 and an empty properties map.
C20_Witness ==
  \E k \in 1..Len(listings) :
    /\ listings[k].op = "listTools" /\ listings[k].registered >= 1
    /\ tools[1].inputSchema = ZString(<<[kind |-> "max", value |-> 5]>>)
    /\ listings[k].result.items[1].inputSchema =
         [type |-> "object", maxLength |-> 5, properties |-> <<>>]

\* ---------------------------------------------------------------- C21 (Spec)
\* C21: once start() has been called, no operation changes the tool
\* registry: every later step leaves the sequence of registered tools, its
\* members and their order, as it was.
C21_RegistryStep == started => tools' = tools
C21_RegistryFrozenAfterStart == [][C21_RegistryStep]_vars

\* ------------------------------------------------------- C22 (SpecArrivals)
Checking == {a \in Arrivals : inflight[a].pc = "checking"}

\* The step that ends a check does what check(key) does to the map as it is
\* now: what the check read at its start is still what is stored, and no
\* unexpired time of the key is dropped by the write.
C22_CheckStep ==
  (rlLog' # rlLog) =>
    LET e == rlLog'[Len(rlLog')]
        r == check(limiter, requests, e.key, e.at)
        stored == IF e.key \in DOMAIN requests THEN requests[e.key] ELSE <<>>
    IN /\ e.ok = r.ok
       /\ requests' = r.requests
       /\ e.ok => \A i \in 1..Len(stored) :
                    e.at - stored[i] < limiter.windowMs =>
                      \E j \in 1..Len(requests'[e.key]) : requests'[e.key][j] = stored[i]

\* C22: however the requests that share a rate-limit key are interleaved, at
\* most one check is between its read and its write at any time, each check
\* acts on the stored history as one step (no stored time is lost), and at
\* most max of the requests with a time in one window are admitted.
C22_ChecksAreAtomic ==
  /\ [](Cardinality(Checking) <= 1)
  /\ [][C22_CheckStep]_vars
  /\ [](limiter.built =>
          \A key \in RlKeys, t \in Instants :
            Cardinality(AcceptedIn(rlLog, key, t - limiter.windowMs, t)) <= limiter.max)

\* Three requests with one key arrive at the same instant at a limiter of
\* max 2: two are admitted and one is refused.
C22_Witness ==
  /\ limiter.built /\ limiter.max = 2
  /\ \A a \in Arrivals : inflight[a].key = "10.0.0.1" /\ inflight[a].at = 200
  /\ Cardinality({a \in Arrivals : inflight[a].pc = "admitted"}) = 2
  /\ Cardinality({a \in Arrivals : inflight[a].pc = "refused"}) = 1
  /\ requests["10.0.0.1"] = <<200, 200>>

\* ----------------------------------------------------- C23 (SpecConcurrent)
\* What a step of call c may read: its own locals.  A hook or handler that
\* is invoked in the step is handed the context, the input and the output
\* the call held before the step.
C23_OwnStep(c) ==
  LET s == calls[c]
      t == calls'[c]
      invokedNow == t.invoked.pre + t.invoked.handler + t.invoked.post
                      > s.invoked.pre + s.invoked.handler + s.invoked.post
  IN /\ t.ctx \in {0, c}
     /\ s.ctx = c => t.ctx = c
     /\ invokedNow =>
          /\ t.seen.ctx = c
          /\ t.seen.input = s.input
          /\ t.seen.kind = "post" => t.seen.output = s.output
     /\ (t.input # s.input) =>
          \/ s.pc = "validate_input"
          \/ s.pc = "pre_hooks" /\ t.input = t.preRepl
     /\ (t.output # s.output) =>
          \/ s.pc \in {"execute", "validate_output"}
          \/ s.pc = "post_hooks" /\ t.output = t.postRepl
     /\ (t.pc = "done" /\ s.pc = "respond" /\ ~t.response.isError) =>
          t.response = SuccessResponse(s.output)

C23_CallStep ==
  /\ \A c, d \in ConcurrentCalls :
       (c # d /\ calls'[c] # calls[c]) => calls'[d] = calls[d]
  /\ \A c \in ConcurrentCalls : C23_OwnStep(c)

\* C23: when calls are interleaved at their suspension points, each has its
\* own context and its own current input and output: a step of one call
\* changes nothing of any other call, every hook and handler is handed the
\* context, input and output of its own call, and a call's input and output
\* change only by that call's own validation, hook and handler results.
C23_CallsAreIsolated == [][C23_CallStep]_vars

\* Two calls of one tool in flight together: the pre-hook of call 1 replaced
\* its input, and the handler of call 2, invoked afterwards on call 2's own
\* validated input, is still running after call 1 has responded.
C23_Witness ==
  /\ calls[1].pc = "done" /\ calls[1].preRepl = "obj"
  /\ calls[1].inputResult = "ok" /\ calls[1].response = SuccessResponse("obj")
  /\ calls[2].pc = "validate_output" /\ calls[2].input = "zero"
  /\ calls[2].seen = [kind |-> "handler", hook |-> 0, ctx |-> 2,
                      input |-> "zero", output |-> NoValue]
  /\ calls[2].output = "big"

\* --------------------------------------------------------- C24 (SpecCancel)
\* C24: once the peer has cancelled a call between RESOLVE and RESPOND, no
\* further stage of that call starts: no validation, pre-hook, handler or
\* post-hook is invoked for it in any later step.
C24_CancelledStep ==
  \A c \in Calls : c \in cancelled => calls'[c].invoked = calls[c].invoked

C24_NoStageAfterCancel == [][C24_CancelledStep]_vars

\* ------------------------------------------------- C25 (SpecConcurrentFair)
Hung(c) == calls[c].pc = "hung"
Submitted(c) == calls[c].pc # "idle"

\* A hung call stays as it is: it never responds and never rejects.
C25_HungStep == \A c \in ConcurrentCalls : Hung(c) => calls'[c] = calls[c]

\* C25: a call whose hook or handler never returns blocks only itself.
\* Under fair scheduling every submitted call either produces its response
\* or is itself hung in one of its own hooks or its handler, whatever the
\* other calls do; a hung call has no response and never gets one.
C25_HungBlocksOnlyItself ==
  /\ \A c \in ConcurrentCalls : Submitted(c) ~> (Done(c) \/ Hung(c))
  /\ [](\A c \in ConcurrentCalls :
          Hung(c) => calls[c].response = NoResponse /\ ~calls[c].rejected)
  /\ [][C25_HungStep]_vars

\* The handler of call 1 never returned; call 2, of the same tool, has
\* produced its success response.
C25_Witness ==
  /\ Hung(1) /\ calls[1].faultAt = "" /\ calls[1].seen.kind = "handler"
  /\ Done(2) /\ calls[2].tool = calls[1].tool
  /\ calls[2].response = SuccessResponse("obj")
  /\ calls[1].response = NoResponse

\* ---------------------------------------------------------------- C26 (Spec)
\* C26, as stated: validateWithSchema never throws, so no call ever has a
\* fault raised by one of its two validations.
C26_ValidateNeverThrows ==
  \A c \in Calls : calls[c].faultAt \notin {"validate_input", "validate_output"}

\* What a validation whose parse ended as kind did to its call: a parsed
\* value is a success result, a ZodError is a failure result, and anything
\* else is thrown on unchanged and reaches the handler's catch.
C26_ValidationEnded(s, kind, stage, invalid) ==
  /\ kind = "ok" => stage \in s.passed
  /\ kind = "zod" =>
       /\ s.fault = NoThrown /\ stage \notin s.passed
       /\ s.pc = "done" /\ s.response = invalid
  /\ kind = "throw" =>
       /\ s.faultAt = stage /\ s.fault \in Thrown /\ s.caught = s.fault
       /\ s.pc = "done" /\ s.response = ExecFailedResponse(s.fault)
  /\ s.faultAt = stage => kind = "throw"

\* C26 (amended): validateWithSchema returns a success result when the parse
\* returns and a failure result when the parse raises a validation error;
\* anything else the parse raises is thrown on to the caller unchanged.
C26_ValidateThrowsOnlyNonZod ==
  \A c \in Calls :
    /\ C26_ValidationEnded(calls[c], calls[c].inputResult, "validate_input",
                           InputInvalidResponse)
    /\ C26_ValidationEnded(calls[c], calls[c].outputResult, "validate_output",
                           OutputInvalidResponse)

\* The parse of the handler's result threw a value that is not an Error,
\* after the parse of the arguments had succeeded.
C26_Witness ==
  \E c \in Calls :
    /\ Done(c) /\ calls[c].inputResult = "ok" /\ calls[c].outputResult = "throw"
    /\ ~calls[c].fault.instanceOfError
    /\ calls[c].response = ExecFailedResponse(calls[c].fault)

\* --------------------------------------------------- C27 .. C28 (SpecLimiter)
History(reqs, key) == IF key \in DOMAIN reqs THEN reqs[key] ELSE <<>>
Times(h) == {h[i] : i \in 1..Len(h)}
LimiterKeys == {rateLimitKey(r) : r \in ArrivalRequests}

\* The operation made in this step, if it made one.
LatestOp == rlLog'[Len(rlLog')]
AcceptedCheckOf(key) ==
  rlLog' # rlLog /\ LatestOp.op = "check" /\ LatestOp.key = key /\ LatestOp.ok
ResetOf(key) == rlLog' # rlLog /\ LatestOp.op = "reset" /\ LatestOp.key = key

\* Each stored history holds at most max times.
C27_Bounded ==
  limiter.built => \A key \in DOMAIN requests : Len(requests[key]) <= limiter.max

\* A key gets stored state by an accepted check of it alone, and an
\* operation on one key leaves the history of every other key as it was.
C27_FrameStep ==
  \A key \in LimiterKeys :
    /\ (key \notin DOMAIN requests /\ key \in DOMAIN requests') => AcceptedCheckOf(key)
    /\ (rlLog' # rlLog /\ LatestOp.key # key) =>
         /\ key \in DOMAIN requests' <=> key \in DOMAIN requests
         /\ History(requests', key) = History(requests, key)

\* C27, as stated: an expired time of a key leaves its history only in an
\* accepted check of that key.
C27_DropStepChecksOnly ==
  \A key \in LimiterKeys :
    LET dropped == Times(History(requests, key)) \ Times(History(requests', key)) IN
    (\E time \in dropped : now - time >= limiter.windowMs) => AcceptedCheckOf(key)

C27_AsStated ==
  /\ []C27_Bounded
  /\ [][C27_FrameStep /\ C27_DropStepChecksOnly]_vars

\* A stored time of a key leaves its history only in an accepted check of
\* that key, which drops the expired times and no other, or in a reset of
\* that key.
C27_DropStep ==
  \A key \in LimiterKeys :
    LET dropped == Times(History(requests, key)) \ Times(History(requests', key)) IN
    dropped # {} =>
      \/ /\ AcceptedCheckOf(key)
         /\ \A time \in dropped : now - time >= limiter.windowMs
      \/ ResetOf(key)

\* C27 (amended): each key's stored history holds at most max times,
\* whatever the number of checks; a key gets stored state only by an accepted
\* check of it; expired times of a key are dropped only by a later accepted
\* check or by a reset of that same key; check(k) and reset(k) leave the
\* history of every other key as it was.
C27_HistoriesBoundedAndLazy ==
  /\ []C27_Bounded
  /\ [][C27_FrameStep /\ C27_DropStep]_vars

\* max 2, window 400 ms: a key accepted at 0 and 200 is accepted again at
\* 1000, which drops both expired times, while another key keeps a time of
\* its own.
C27_Witness ==
  /\ limiter.built /\ limiter.max = 2 /\ limiter.windowMs = 400
  /\ rlLog = << [op |-> "check", key |-> "10.0.0.1", at |-> 0, ok |-> TRUE],
                [op |-> "check", key |-> "10.0.0.2", at |-> 0, ok |-> TRUE],
                [op |-> "check", key |-> "10.0.0.1", at |-> 200, ok |-> TRUE],
                [op |-> "check", key |-> "10.0.0.1", at |-> 1000, ok |-> TRUE] >>
  /\ requests["10.0.0.1"] = <<1000>>
  /\ requests["10.0.0.2"] = <<0>>


\* The latest operation on key recorded in log, or 0 when there is none.
LatestOn(log, key) ==
  LET on == {i \in 1..Len(log) : log[i].key = key} IN
  IF on = {} THEN 0 ELSE CHOOSE i \in on : \A j \in on : j <= i

C28_ResetStep ==
  (rlLog' # rlLog) =>
    LET e == LatestOp
        before == LatestOn(rlLog, e.key)
    IN /\ e.op = "reset" =>
            /\ DOMAIN requests' = DOMAIN requests \ {e.key}
            /\ \A k \in DOMAIN requests' : requests'[k] = requests[k]
            /\ e.key \notin DOMAIN requests => requests' = requests
       /\ (e.op = "check" /\ before # 0 /\ rlLog[before].op = "reset"
             /\ limiter.max >= 1) =>
            /\ e.ok
            /\ requests'[e.key] = <<e.at>>

\* C28: reset(key) removes the whole history of that key and nothing else;
\* with max >= 1 the first check of the key after its reset is accepted,
\* whatever happened before, and stores its time alone; the reset of a key
\* without a history leaves the map as it was.
C28_ResetClearsOneKey == [][C28_ResetStep]_vars

\* max 1: a key that is at its limit is reset and accepted again at the same
\* instant, while another key keeps its history.
C28_Witness ==
  /\ limiter.built /\ limiter.max = 1
  /\ rlLog = << [op |-> "check", key |-> "10.0.0.2", at |-> 0, ok |-> TRUE],
                [op |-> "check", key |-> "10.0.0.1", at |-> 200, ok |-> TRUE],
                [op |-> "reset", key |-> "10.0.0.1", at |-> 200, ok |-> FALSE],
                [op |-> "check", key |-> "10.0.0.1", at |-> 200, ok |-> TRUE] >>
  /\ requests["10.0.0.1"] = <<200>>
  /\ requests["10.0.0.2"] = <<0>>

\* ---------------------------------------------------------------- C29 (Spec)
C29_StepOf(s, t) ==
  /\ t.invoked.validate <= 2
     \* the validator runs on the arguments before anything else, and on the
     \* handler's result before any post-hook
  /\ t.invoked.validate > s.invoked.validate =>
       \/ /\ s.pc = "validate_input" /\ s.invoked = NoInvoked
          /\ t.invoked.validate = 1
       \/ /\ s.pc = "validate_output" /\ s.invoked.validate = 1
          /\ s.invoked.handler = 1 /\ s.invoked.post = 0
          /\ t.invoked.validate = 2
     \* the pipeline goes on from input validation with the parsed value
  /\ (s.pc = "validate_input" /\ t.pc \in {"pre_hooks", "execute"}) =>
       t.inputResult = "ok" /\ t.input \in Values
     \* a pre-hook's substitute becomes the input as it is, unvalidated
  /\ s.pc = "pre_hooks" =>
       /\ t.invoked.validate = s.invoked.validate
       /\ t.input # s.input => t.input = t.preRepl
     \* the handler is handed the current input
  /\ s.pc = "execute" =>
       /\ t.seen.kind = "handler" /\ t.seen.input = s.input
       /\ t.input = s.input
     \* a post-hook's substitute becomes the output as it is, unvalidated
  /\ s.pc = "post_hooks" =>
       /\ t.invoked.validate = s.invoked.validate
       /\ t.output # s.output => t.output = t.postRepl
  /\ (s.pc = "respond" /\ ~t.response.isError) =>
       t.response = SuccessResponse(s.output)

C29_CallStep ==
  \A c \in Calls : calls'[c] # calls[c] => C29_StepOf(calls[c], calls'[c])

\* C29: per call the validator runs at most twice, once on the arguments
\* before any pre-hook and once on the handler's result before any
\* post-hook; the handler receives the parsed input unless a pre-hook
\* replaced it, and what pre-hooks and post-hooks substitute is used as it
\* is, with no further validation.
C29_ValidatedAtMostTwice == [][C29_CallStep]_vars

\* A call that was validated twice although its pre-hook replaced the parsed
\* input "zero" by "obj" and its post-hook replaced the validated output.
C29_Witness ==
  \E c \in Calls :
    /\ Done(c) /\ calls[c].invoked.validate = 2
    /\ calls[c].invoked.pre = 1 /\ calls[c].invoked.post = 1
    /\ calls[c].preRepl = "obj" /\ calls[c].seen.input = "obj"
    /\ calls[c].postRepl = "obj" /\ calls[c].seen.output = "zero"
    /\ calls[c].response = SuccessResponse("obj")

\* ----------------------------------------------------------- C30 (SpecAuth)
\* C30: with authentication type 'custom' the middleware extracts no token,
\* whatever headers the request carries: every request is answered 401
\* 'Authentication required', validate is never called and the continuation
\* is never invoked.
C30_CustomAlways401 ==
  (auth.built /\ auth.type = "custom" /\ authRes.handled) =>
    /\ authRes.token = <<>>
    /\ authRes.status = 401
    /\ authRes.error = "Authentication required"
    /\ authRes.message = <<"Missing", "custom", "token">>
    /\ authRes.validated = 0
    /\ authRes.next = 0
    /\ ~authRes.rejected

\* A 'custom' middleware with a validator and a configured header name has
\* answered a request that carries an API key in both key headers and a
\* well-formed bearer token.
C30_Witness ==
  /\ auth.built /\ auth.type = "custom"
  /\ auth.validate = "present" /\ auth.headerName = "X-Token"
  /\ authRes.handled /\ authRes.status = 401
  /\ authRes.headers["x-api-key"] = Text(<<"k", "1">>)
  /\ authRes.headers["x-token"] = Text(<<"k", "1">>)
  /\ authRes.headers["authorization"] = Text(BearerPrefix \o <<"t", "1">>)

====
